---- MODULE Spec2Model ----
(***************************************************************************)
(* Cycle_Count_Helper: the recommendation engine apply_recommendations of  *)
(* src/core/recommender.py as a state machine.  One run is: Start (schema  *)
(* check, working copy, normalisation, placeholders, mode), the groups     *)
(* (Whs, Item, Batch/lot) in order of first appearance, Finish.  A group   *)
(* that ends at a "continue" is one step; a WHS 50 group with its default  *)
(* row is entered, takes one step per secondary row, then the default      *)
(* decision, then the step that writes the group values and the summary.   *)
(*                                                                         *)
(* Text values on which the code computes (strip / upper / lower) are      *)
(* tuples of one-character strings, e.g. <<"S","T","0","1">>; text the     *)
(* code only writes (actions, confidences, headlines) is a plain string.   *)
(* Quantities are integer valued floats; a missing quantity is NaN.        *)
(***************************************************************************)
EXTENDS Integers, Sequences, FiniteSets, TLC

\* ---------------------------------------------------------------- bounds
MaxQty == 2
MaxBuf == 1
MaxRuns == 2

\* ------------------------------------------------------- missing values
\* pandas' missing number (float NaN) and missing text (pd.NA)
NaN == -9999
NA == <<"<NA>">>
\* Python's None in a group summary row
NoneVal == -9998

IsNum(x) == x # NaN /\ x # NoneVal

\* ------------------------------------------------------------- text ops
LowerChars == <<"a","b","c","d","e","f","g","h","i","j","k","l","m",
                "n","o","p","q","r","s","t","u","v","w","x","y","z">>
UpperChars == <<"A","B","C","D","E","F","G","H","I","J","K","L","M",
                "N","O","P","Q","R","S","T","U","V","W","X","Y","Z">>

upper_char(c) ==
    IF \E i \in 1..26 : LowerChars[i] = c
    THEN UpperChars[CHOOSE i \in 1..26 : LowerChars[i] = c]
    ELSE c

lower_char(c) ==
    IF \E i \in 1..26 : UpperChars[i] = c
    THEN LowerChars[CHOOSE i \in 1..26 : UpperChars[i] = c]
    ELSE c

RECURSIVE lstrip(_)
lstrip(s) == IF s # <<>> /\ Head(s) = " " THEN lstrip(Tail(s)) ELSE s

RECURSIVE rstrip(_)
rstrip(s) ==
    IF s # <<>> /\ s[Len(s)] = " " THEN rstrip(SubSeq(s, 1, Len(s) - 1)) ELSE s

\* Series.str.strip / .str.upper / .str.lower keep a missing value missing
str_strip(s) == IF s = NA THEN NA ELSE rstrip(lstrip(s))
str_upper(s) ==
    IF s = NA THEN NA ELSE SubSeq([i \in 1..Len(s) |-> upper_char(s[i])], 1, Len(s))
str_lower(s) ==
    IF s = NA THEN NA ELSE SubSeq([i \in 1..Len(s) |-> lower_char(s[i])], 1, Len(s))
fillna(s, v) == IF s = NA THEN v ELSE s

\* str(x).strip().lower() of a cell: str() of a missing cell is "nan"/"<NA>",
\* which equals none of the words the code compares with
py_norm(s) == str_lower(str_strip(s))

\* ------------------------------------------------------------ literals
ST01 == <<"S","T","0","1">>
WHS50 == <<"5","0">>
W_unsecured == <<"u","n","s","e","c","u","r","e","d">>
W_secured == <<"s","e","c","u","r","e","d">>
W_available == <<"a","v","a","i","l","a","b","l","e">>
W_available_upon_request ==
    <<"a","v","a","i","l","a","b","l","e"," ","u","p","o","n"," ",
      "r","e","q","u","e","s","t">>
W_available_on_request ==
    <<"a","v","a","i","l","a","b","l","e","_","o","n","_",
      "r","e","q","u","e","s","t">>
M_TRANSFER == <<"T","R","A","N","S","F","E","R">>
M_ADJUST == <<"A","D","J","U","S","T">>

required ==
    <<"Whs", "Item", "Batch/lot", "DefaultLocation", "Location",
      "SystemQty", "CountQty", "VarianceQty",
      "Location Type", "Allocation Category", "Missing Location Master">>

Range(s) == {s[i] : i \in DOMAIN s}

Max(a, b) == IF a >= b THEN a ELSE b
Min(a, b) == IF a <= b THEN a ELSE b
Abs(a) == IF a < 0 THEN 0 - a ELSE a

\* Series.sum(): missing values are skipped
RECURSIVE SumSkipNa(_)
SumSkipNa(s) ==
    IF s = <<>> THEN 0
    ELSE (IF Head(s) = NaN THEN 0 ELSE Head(s)) + SumSkipNa(Tail(s))

\* f"{q:g}" of an integer valued float
fmt_g(q) == ToString(q)

\* f"{s}" of a text value: its characters in one string
RECURSIVE fmt_s(_)
fmt_s(s) == IF s = <<>> THEN "" ELSE Head(s) \o fmt_s(Tail(s))

\* ------------------------------------------------------- pure helpers
\* the two cells compared without lower()
is_default_eligible_cased(loc_type, alloc_cat) ==
    str_strip(loc_type) = W_unsecured /\ str_strip(alloc_cat) = W_available

is_default_eligible(loc_type, alloc_cat) ==
    py_norm(loc_type) = W_unsecured /\ py_norm(alloc_cat) = W_available

conf_order(c) == IF c = "Low" THEN 0 ELSE IF c = "High" THEN 2 ELSE 1
conf_inv(n) == IF n = 0 THEN "Low" ELSE IF n = 1 THEN "Med" ELSE "High"
confidence_cap(conf, cap) == conf_inv(Min(conf_order(conf), conf_order(cap)))

\* the secured-variance headline tried before the move-recount one
group_headline_secured_first(flags, remaining_adj, has_transfers) ==
    IF flags.missing_master THEN "Investigate: location not in master"
    ELSE IF flags.secured_variance THEN "Investigate: secured location variance"
    ELSE IF flags.move_recount THEN "Move + recount required (include default)"
    ELSE IF flags.default_empty
         THEN "Action needed: default counted zero (verify on-hand)"
    ELSE IF remaining_adj # 0
         THEN "Adjust " \o (IF remaining_adj > 0 THEN "up" ELSE "down") \o " "
              \o fmt_g(Abs(remaining_adj))
              \o (IF has_transfers THEN " after transfers" ELSE "")
    ELSE IF has_transfers THEN "Transfers only (resolve via default)"
    ELSE "No variance"

group_headline(flags, remaining_adj, has_transfers) ==
    IF flags.missing_master THEN "Investigate: location not in master"
    ELSE IF flags.move_recount THEN "Move + recount required (include default)"
    ELSE IF flags.secured_variance THEN "Investigate: secured location variance"
    ELSE IF flags.default_empty
         THEN "Action needed: default counted zero (verify on-hand)"
    ELSE IF remaining_adj # 0
         THEN "Adjust " \o (IF remaining_adj > 0 THEN "up" ELSE "down") \o " "
              \o fmt_g(Abs(remaining_adj))
              \o (IF has_transfers THEN " after transfers" ELSE "")
    ELSE IF has_transfers THEN "Transfers only (resolve via default)"
    ELSE "No variance"

\* the category compared as it is stored, without strip().lower()
sec_can_move_raw(alloc_cat) ==
    alloc_cat \in {W_available, W_available_upon_request, W_available_on_request}

\* sec_can_move of a secondary row
sec_can_move(alloc_cat) ==
    py_norm(alloc_cat) \in
        {W_available, W_available_upon_request, W_available_on_request}

\* --------------------------------------------- Start: schema, copy, mode
\* only the first required column that is absent
missing_columns_first(columns) ==
    LET absent == SelectSeq(required, LAMBDA c : c \notin columns)
    IN  IF absent = <<>> THEN <<>> ELSE <<Head(absent)>>

missing_columns(columns) == SelectSeq(required, LAMBDA c : c \notin columns)

\* df = review_lines.copy(), key fields normalised, placeholders added
working_row(r) ==
    [Whs |-> str_strip(r.Whs),
     Item |-> str_strip(r.Item),
     Lot |-> str_strip(fillna(r.Lot, <<>>)),
     DefaultLocation |-> str_upper(str_strip(fillna(r.DefaultLocation, <<>>))),
     Location |-> str_upper(str_strip(r.Location)),
     SystemQty |-> r.SystemQty,
     CountQty |-> r.CountQty,
     VarianceQty |-> r.VarianceQty,
     LocationType |-> r.LocationType,
     AllocationCategory |-> r.AllocationCategory,
     MissingMaster |-> r.MissingMaster,
     IsDefault |-> "N",
     IsSecondary |-> "N",
     RecommendationType |-> "",
     RecommendedQty |-> 0,
     FromLocation |-> <<>>,
     ToLocation |-> <<>>,
     RemainingAdjustmentQty |-> 0,
     SetLocationQtyTo |-> NaN,
     Reason |-> "",
     Confidence |-> "Med",
     Severity |-> 0,
     GroupHeadline |-> ""]

\* the caller's frame seen through df: the same object, every write shared
frame_shared(frame, d) ==
    [columns |-> frame.columns \cup (DOMAIN working_row(frame.rows[1])),
     rows |-> d]

\* review_lines after df = review_lines.copy() and the writes to df:
\* copy() is deep, the two frames share no data
frame_after_copy(frame, d) == frame

working_copy(rows) ==
    SubSeq([i \in DOMAIN rows |-> working_row(rows[i])], 1, Len(rows))

\* transfer_mode = str(transfer_mode).strip().upper() or "TRANSFER"
parse_mode(m) ==
    LET u == str_upper(str_strip(m)) IN IF u = <<>> THEN M_TRANSFER ELSE u

\* (Whs, Item, Batch/lot) of a row; groupby drops rows with a missing key
row_key(r) == <<r.Whs, r.Item, r.Lot>>
key_present(r) == r.Whs # NA /\ r.Item # NA /\ r.Lot # NA

\* df.groupby(gcols, sort=False): keys in order of first appearance
RECURSIVE group_keys_from(_, _, _)
group_keys_from(d, i, seen) ==
    IF i > Len(d) THEN seen
    ELSE IF key_present(d[i]) /\ row_key(d[i]) \notin Range(seen)
         THEN group_keys_from(d, i + 1, Append(seen, row_key(d[i])))
         ELSE group_keys_from(d, i + 1, seen)

group_keys(d) == group_keys_from(d, 1, <<>>)

\* g.index: the positions of the rows of one group, ascending
index_where(d, P(_)) ==
    SelectSeq([i \in 1..Len(d) |-> i], LAMBDA i : P(d[i]))

group_index(d, key) ==
    index_where(d, LAMBDA r : key_present(r) /\ row_key(r) = key)

\* a sequence given by a rule, built once as a tuple
Strict(s) == SubSeq(s, 1, Len(s))

column(d, idx, f(_)) == Strict([k \in DOMAIN idx |-> f(d[idx[k]])])

\* df.loc[rows, columns] = values: the fields of f replace those of r
upd(r, f) == f @@ r
set_rows(d, rows, F(_)) ==
    Strict([i \in DOMAIN d |-> IF i \in rows THEN F(d[i]) ELSE d[i]])

sum_system(d, idx) == SumSkipNa(column(d, idx, LAMBDA r : r.SystemQty))
sum_count(d, idx) == SumSkipNa(column(d, idx, LAMBDA r : r.CountQty))
sum_variance(d, idx) == SumSkipNa(column(d, idx, LAMBDA r : r.VarianceQty))
sys_st01_of(d, idx) ==
    SumSkipNa(column(d, idx,
                     LAMBDA r : IF r.Location = ST01 THEN r.SystemQty ELSE 0))

\* ",".join(group_flags_str)
RECURSIVE join_flags(_)
join_flags(s) ==
    IF s = <<>> THEN ""
    ELSE IF Len(s) = 1 THEN s[1]
    ELSE s[1] \o "," \o join_flags(Tail(s))

\* the local variables of one group step, kept for the record
no_locals(key, route, mm) ==
    [key |-> key, route |-> route,
     missing_master |-> mm, secured_variance |-> FALSE,
     default_empty |-> FALSE, move_recount |-> FALSE,
     default_loc |-> <<>>, default_eligible |-> FALSE,
     default_system |-> 0, default_count |-> 0, sys_st01 |-> 0,
     transfers_in_default |-> 0, transfers_out_default |-> 0,
     default_after |-> 0, remaining_adj |-> 0,
     has_transfers |-> FALSE, has_moves |-> FALSE,
     group_conf |-> "", group_sev |-> 0]

\* ------------------------------------------- the routes of one group
flag_missing_master(d, g) == \E k \in DOMAIN g : d[g[k]].MissingMaster = "Y"

\* every default-location value of the group, the blank ones too
all_defaults(d, g) == column(d, g, LAMBDA r : r.DefaultLocation)

nonblank_defaults(d, g) ==
    SelectSeq(column(d, g, LAMBDA r : r.DefaultLocation), LAMBDA v : v # <<>>)

default_rows_of(d, g, default_loc) ==
    SelectSeq(g, LAMBDA i : d[i].Location = default_loc)

route_of(d, key) ==
    LET g == group_index(d, key) IN
    IF str_strip(key[1]) # WHS50 THEN "non_whs50"
    ELSE IF nonblank_defaults(d, g) = <<>> THEN "default_blank"
    ELSE IF default_rows_of(d, g, nonblank_defaults(d, g)[1]) = <<>>
         THEN "default_row_missing"
    ELSE "reconcile"

\* warehouse guardrail
non_whs50_group(st, key) ==
    LET d == st.df
        g == group_index(d, key)
        d1 == set_rows(d, Range(g), LAMBDA r : upd(r,
                [RecommendationType |-> "NO_ACTION",
                 Reason |-> "Warehouse is not 50; this tool does not auto-recommend transfers/default updates outside WHS 50.",
                 Confidence |-> "High",
                 Severity |-> 0,
                 GroupHeadline |-> "No action (non-WHS 50)"]))
        summary ==
            [Whs |-> key[1], Item |-> key[2], Lot |-> key[3],
             DefaultLocation |->
                 IF nonblank_defaults(d, g) # <<>>
                 THEN d[g[1]].DefaultLocation ELSE <<>>,
             SystemTotal |-> sum_system(d, g),
             CountTotal |-> sum_count(d, g),
             NetVariance |-> sum_variance(d, g),
             SysST01 |-> sys_st01_of(d, g),
             DefaultSystemAfter |-> NoneVal,
             DefaultCount |-> NoneVal,
             Flags |-> "NonWHS50",
             RecommendationHeadline |-> "No action (non-WHS 50)",
             RemainingAdjustmentQty |-> 0,
             Confidence |-> "High",
             Severity |-> 0]
    IN  [df |-> d1, transfers |-> st.transfers,
         group_rows |-> Append(st.group_rows, summary),
         locals |-> Append(st.locals, no_locals(key, "non_whs50", FALSE))]

\* no default location provided
default_blank_group(st, key) ==
    LET d == st.df
        g == group_index(d, key)
        mm == flag_missing_master(d, g)
        sev == IF mm THEN 100 ELSE 85
        headline == "Investigate: default location missing"
        d1 == set_rows(d, Range(g), LAMBDA r : upd(r,
                [RecommendationType |-> "INVESTIGATE",
                 Reason |-> "DefaultLocation is blank; cannot reconcile group automatically.",
                 Confidence |-> "Low",
                 Severity |-> sev,
                 GroupHeadline |-> headline]))
        summary ==
            [Whs |-> key[1], Item |-> key[2], Lot |-> key[3],
             DefaultLocation |-> <<>>,
             SystemTotal |-> sum_system(d, g),
             CountTotal |-> sum_count(d, g),
             NetVariance |-> sum_variance(d, g),
             SysST01 |-> sys_st01_of(d, g),
             DefaultSystemAfter |-> NoneVal,
             DefaultCount |-> NoneVal,
             Flags |-> "DefaultMissing",
             RecommendationHeadline |-> headline,
             RemainingAdjustmentQty |-> NoneVal,
             Confidence |-> "Low",
             Severity |-> sev]
    IN  [df |-> d1, transfers |-> st.transfers,
         group_rows |-> Append(st.group_rows, summary),
         locals |-> Append(st.locals, no_locals(key, "default_blank", mm))]

\* IsDefault / IsSecondary marks. For a record without a Location value the
\* comparison g["Location"] == default_loc is <NA>, and so is its negation;
\* g.index[...] reads <NA> as False, so the record gets neither mark.
mark_default(d, g, default_loc) ==
    set_rows(d, Range(g), LAMBDA r :
        IF r.Location = NA THEN r
        ELSE IF r.Location = default_loc THEN upd(r, [IsDefault |-> "Y"])
        ELSE upd(r, [IsSecondary |-> "Y"]))

flag_secured_variance(d, g) ==
    \E k \in DOMAIN g :
        /\ py_norm(d[g[k]].LocationType) = W_secured
        /\ d[g[k]].VarianceQty # 0

\* default row missing from the recount lines
default_row_missing_group(st, key) ==
    LET d == st.df
        g == group_index(d, key)
        mm == flag_missing_master(d, g)
        default_loc == nonblank_defaults(d, g)[1]
        d0 == mark_default(d, g, default_loc)
        headline == "Investigate: default row missing"
        d1 == set_rows(d0, Range(g), LAMBDA r : upd(r,
                [RecommendationType |-> "INVESTIGATE",
                 Reason |-> "DefaultLocation '" \o fmt_s(default_loc)
                           \o "' not present in recount lines.",
                 Confidence |-> "Low",
                 Severity |-> 85,
                 GroupHeadline |-> headline]))
        summary ==
            [Whs |-> key[1], Item |-> key[2], Lot |-> key[3],
             DefaultLocation |-> default_loc,
             SystemTotal |-> sum_system(d, g),
             CountTotal |-> sum_count(d, g),
             NetVariance |-> sum_variance(d, g),
             SysST01 |-> sys_st01_of(d, g),
             DefaultSystemAfter |-> NoneVal,
             DefaultCount |-> NoneVal,
             Flags |-> "DefaultRowMissing",
             RecommendationHeadline |-> headline,
             RemainingAdjustmentQty |-> NoneVal,
             Confidence |-> "Low",
             Severity |-> 85]
    IN  [df |-> d1, transfers |-> st.transfers,
         group_rows |-> Append(st.group_rows, summary),
         locals |-> Append(st.locals,
             [no_locals(key, "default_row_missing", mm) EXCEPT
                 !.default_loc = default_loc,
                 !.secured_variance = flag_secured_variance(d, g),
                 !.sys_st01 = sys_st01_of(d, g)])]

\* ---------------------------------------- secondary strict reconciliation
\* every record of the group but the ST01 ones, the default included
secondary_index_with_default(d, g, default_loc) ==
    SelectSeq(g, LAMBDA i : d[i].Location # NA /\ d[i].Location # ST01)

\* g[(g["Location"] != default_loc) & (g["Location"] != "ST01")]: both
\* comparisons are <NA> for a record without a Location value, and the mask
\* reads <NA> as False, so the loop never visits that record
secondary_index(d, g, default_loc) ==
    SelectSeq(g, LAMBDA i :
        /\ d[i].Location # NA
        /\ d[i].Location # default_loc
        /\ d[i].Location # ST01)

suggestion(c, qty, loc, reason, severity) ==
    [whs |-> c.whs, item |-> c.item, batch_lot |-> c.lot,
     qty |-> qty, from_location |-> loc, to_location |-> c.default_loc,
     reason |-> reason,
     confidence |-> IF c.secured_variance THEN "Med" ELSE "High",
     severity |-> severity]

\* secondary > system (delta > 0)
secondary_over(acc, ridx, c, qty) ==
    LET row == acc.df[ridx]
        conf == IF c.secured_variance THEN "Med" ELSE "High"
    IN  IF sec_can_move(row.AllocationCategory)
        THEN [df |-> [acc.df EXCEPT ![ridx] = upd(row,
                        [RecommendationType |-> "INVESTIGATE",
                         RecommendedQty |-> qty,
                         Reason |-> "MOVE + RECOUNT: secondary > system and location is movable (AVAILABLE / AVAILABLE UPON REQUEST). Physically move excess to default '"
                             \o fmt_s(c.default_loc)
                             \o "', then recount including default.",
                         Confidence |-> conf,
                         Severity |-> 80])],
              transfers |->
                  IF c.use_transfers
                  THEN Append(acc.transfers, suggestion(c, qty, row.Location,
                         "Transfer enabled (alternative to adjustment). Planned physical move to default before recount.",
                         80))
                  ELSE acc.transfers,
              transfers_in_default |-> acc.transfers_in_default + qty,
              transfers_out_default |-> acc.transfers_out_default,
              move_recount |-> TRUE]
        ELSE [df |-> [acc.df EXCEPT ![ridx] = upd(row,
                        [RecommendationType |-> "INVESTIGATE",
                         RecommendedQty |-> qty,
                         Reason |-> "RECOUNT REQUIRED: secondary > system but location is NOT movable. Recount this location and default '"
                             \o fmt_s(c.default_loc) \o "' to resolve.",
                         Confidence |-> conf,
                         Severity |-> 85])],
              transfers |-> acc.transfers,
              transfers_in_default |-> acc.transfers_in_default,
              transfers_out_default |-> acc.transfers_out_default,
              move_recount |-> TRUE]

\* secondary < system (delta < 0)
secondary_under(acc, ridx, c, qty) ==
    LET row == acc.df[ridx]
        conf == IF c.secured_variance THEN "Med" ELSE "High"
        default_not_verified == c.default_count = 0
    IN  IF sec_can_move(row.AllocationCategory) /\ default_not_verified
        THEN [df |-> [acc.df EXCEPT ![ridx] = upd(row,
                        [RecommendationType |-> "INVESTIGATE",
                         RecommendedQty |-> qty,
                         Reason |-> "MOVE + RECOUNT: secondary < system and default is not verified (count 0). Possible replenishment from overstock into default '"
                             \o fmt_s(c.default_loc)
                             \o "'. Recount including default before any adjustment.",
                         Confidence |-> conf,
                         Severity |-> 80])],
              transfers |->
                  IF c.use_transfers
                  THEN Append(acc.transfers, suggestion(c, qty, row.Location,
                         "Transfer enabled (alternative). Possible overstock replenished default; recount required.",
                         80))
                  ELSE acc.transfers,
              transfers_in_default |-> acc.transfers_in_default + qty,
              transfers_out_default |-> acc.transfers_out_default,
              move_recount |-> TRUE]
        ELSE IF c.use_transfers
        THEN [df |-> [acc.df EXCEPT ![ridx] = upd(row,
                        [RecommendationType |-> "TRANSFER",
                         RecommendedQty |-> qty,
                         FromLocation |-> row.Location,
                         ToLocation |-> c.default_loc,
                         Reason |-> "Secondary < system; transfer to default to reconcile (adjustment alternative).",
                         Confidence |-> conf,
                         Severity |-> 90])],
              transfers |-> Append(acc.transfers, suggestion(c, qty, row.Location,
                         "Secondary < system; move system qty out so secondary is accurate.",
                         90)),
              transfers_in_default |-> acc.transfers_in_default + qty,
              transfers_out_default |-> acc.transfers_out_default,
              move_recount |-> acc.move_recount]
        ELSE [df |-> [acc.df EXCEPT ![ridx] = upd(row,
                        [RecommendationType |-> "ADJUST",
                         SetLocationQtyTo |-> row.CountQty,
                         RecommendedQty |-> qty,
                         Reason |-> "Secondary < system; adjust down at this location.",
                         Confidence |-> conf,
                         Severity |-> 90])],
              transfers |-> acc.transfers,
              transfers_in_default |-> acc.transfers_in_default,
              transfers_out_default |-> acc.transfers_out_default,
              move_recount |-> acc.move_recount]

\* delta == 0, or a missing count (no comparison with NaN is true)
secondary_match(acc, ridx) ==
    [acc EXCEPT !.df[ridx] = upd(acc.df[ridx],
        [RecommendationType |-> "NO_ACTION",
         Reason |-> "Secondary matches system.",
         Confidence |-> "High",
         Severity |-> 0])]

\* delta = count_qty - system_qty; NaN when either is missing
row_delta(row) ==
    IF row.CountQty = NaN \/ row.SystemQty = NaN THEN NaN
    ELSE row.CountQty - row.SystemQty

\* one pass of the loop over the secondary rows
secondary_row(acc, ridx, c) ==
    LET delta == row_delta(acc.df[ridx]) IN
    IF delta # NaN /\ delta > 0 THEN secondary_over(acc, ridx, c, delta)
    ELSE IF delta # NaN /\ delta < 0 THEN secondary_under(acc, ridx, c, Abs(delta))
    ELSE secondary_match(acc, ridx)

RECURSIVE secondary_loop(_, _, _)
secondary_loop(acc, rows, c) ==
    IF rows = <<>> THEN acc
    ELSE secondary_loop(secondary_row(acc, Head(rows), c), Tail(rows), c)

\* ------------------------------------------------- default reconciliation
\* "if flags.get('move_recount')": default rows marked INVESTIGATE
move_recount_override(d, default_rows, default_loc) ==
    set_rows(d, Range(default_rows), LAMBDA r : upd(r,
        [RecommendationType |-> "INVESTIGATE",
         Reason |-> "MOVE + RECOUNT required due to secondary variance; recount including default '"
                   \o fmt_s(default_loc)
                   \o "' before making any adjustment.",
         Confidence |-> "Med",
         Severity |-> Max(r.Severity, 80)]))

\* group_conf, group_sev, group_flags_str after the two flag tests
flag_caps(missing_master, secured_variance) ==
    LET a == IF missing_master
             THEN [conf |-> confidence_cap("High", "Med"), sev |-> Max(0, 100),
                   flags_str |-> <<"MissingMaster">>]
             ELSE [conf |-> "High", sev |-> 0, flags_str |-> <<>>]
    IN  IF secured_variance
        THEN [conf |-> confidence_cap(a.conf, "Med"), sev |-> Max(a.sev, 95),
              flags_str |-> Append(a.flags_str, "SecuredVariance")]
        ELSE a

\* the direct comparison taken the other way round
remaining_sign_slip(default_eligible, default_count, default_after, sys_st01) ==
    IF default_eligible
    THEN IF default_count < default_after THEN 0 - (default_after - default_count)
         ELSE IF default_count > default_after + sys_st01
         THEN default_count - (default_after + sys_st01)
         ELSE 0
    ELSE default_after - default_count

\* the band without the ST01 tolerance
remaining_without_buffer(default_eligible, default_count, default_after, sys_st01) ==
    default_count - default_after

\* remaining_adj of a default whose count is not 0
remaining_after_transfers(default_eligible, default_count, default_after, sys_st01) ==
    IF default_eligible
    THEN LET min_expected == default_after
             max_expected == default_after + sys_st01
         IN  IF default_count < min_expected THEN 0 - (min_expected - default_count)
             ELSE IF default_count > max_expected THEN default_count - max_expected
             ELSE 0
    ELSE default_count - default_after

default_reason(default_eligible, default_count, default_after, sys_st01, remaining_adj) ==
    IF default_eligible
    THEN "Applied ST01 min/max rule on default (unsecured+available). MIN="
         \o fmt_g(default_after) \o ", MAX=" \o fmt_g(default_after + sys_st01)
         \o ", DefaultCount=" \o fmt_g(default_count) \o ". "
         \o (IF default_count < default_after
             THEN "Default below MIN after transfers; adjust down remaining shortage."
             ELSE IF default_count > default_after + sys_st01
             THEN "Default above MAX after transfers; adjust up remaining overage."
             ELSE "Default within expected range; no adjustment required.")
    ELSE "Default not eligible for ST01 min/max; compared directly after transfers. "
         \o (IF remaining_adj > 0
             THEN "Default count above system-after-transfers; adjust up."
             ELSE IF remaining_adj < 0
             THEN "Default count below system-after-transfers; adjust down."
             ELSE "Default matches system-after-transfers; no adjustment required.")

\* "Determine remaining adjustment AFTER transfers": the default rows and the
\* group's confidence, severity, flags and remaining adjustment
default_decision(d, default_rows, v) ==
    LET caps == flag_caps(v.missing_master, v.secured_variance) IN
    IF v.default_count = 0
    THEN IF v.default_eligible /\ v.sys_st01 > 0
         THEN [df |-> set_rows(d, Range(default_rows), LAMBDA r : upd(r,
                        [RecommendationType |-> "NO_ACTION",
                         Reason |-> "Default location shows 0, but ST01 shows inventory. Assume default may be physically full; no default-empty issue.",
                         Confidence |-> caps.conf,
                         Severity |-> Max(r.Severity, 25)])),
               remaining_adj |-> 0, default_empty |-> FALSE,
               group_conf |-> caps.conf, group_sev |-> caps.sev,
               flags_str |-> caps.flags_str]
         ELSE LET conf == confidence_cap(caps.conf, "Med") IN
              [df |-> set_rows(d, Range(default_rows), LAMBDA r : upd(r,
                        [RecommendationType |-> "INVESTIGATE",
                         Reason |-> "Default counted 0 while system shows inventory; verify on-hand and adjust if empty.",
                         Confidence |-> conf,
                         Severity |-> Max(r.Severity, 85)])),
               remaining_adj |-> 0, default_empty |-> TRUE,
               group_conf |-> conf, group_sev |-> Max(caps.sev, 85),
               flags_str |-> Append(caps.flags_str, "DefaultEmpty")]
    ELSE LET remaining_adj ==
                 remaining_after_transfers(v.default_eligible, v.default_count,
                                           v.default_after, v.sys_st01)
             group_sev == IF remaining_adj # 0 THEN Max(caps.sev, 80) ELSE caps.sev
             reason == default_reason(v.default_eligible, v.default_count,
                                      v.default_after, v.sys_st01, remaining_adj)
             moved == v.transfers_in_default # 0 \/ v.transfers_out_default # 0
         IN  [df |-> set_rows(d, Range(default_rows), LAMBDA r :
                        IF remaining_adj # 0
                        THEN upd(r, [RecommendationType |-> "ADJUST",
                                     SetLocationQtyTo |-> r.CountQty,
                                     RemainingAdjustmentQty |-> remaining_adj,
                                     RecommendedQty |-> Abs(remaining_adj),
                                     Reason |-> reason,
                                     Confidence |-> caps.conf,
                                     Severity |-> Max(r.Severity, group_sev)])
                        ELSE upd(r, [RecommendationType |-> "NO_ACTION",
                                     Reason |-> reason,
                                     Confidence |-> caps.conf,
                                     Severity |-> Max(r.Severity,
                                                      IF moved THEN 60 ELSE 0)])),
              remaining_adj |-> remaining_adj, default_empty |-> FALSE,
              group_conf |-> caps.conf, group_sev |-> group_sev,
              flags_str |-> caps.flags_str]

\* any suggestion at all, of whichever group
has_transfers_any(ts, key) == ts # <<>>

\* any(t.whs == str(whs) and t.item == str(item) and t.batch_lot == str(lot) ...)
has_transfers_for(ts, key) ==
    \E k \in DOMAIN ts :
        ts[k].whs = key[1] /\ ts[k].item = key[2] /\ ts[k].batch_lot = key[3]

\* the headline written to the default rows only
write_group_default_only(d, g, headline, remaining_adj, group_conf, group_sev) ==
    set_rows(d, Range(g), LAMBDA r : upd(r,
        [GroupHeadline |-> IF r.IsDefault = "Y" THEN headline ELSE r.GroupHeadline,
         RemainingAdjustmentQty |->
             IF r.IsDefault = "Y" THEN remaining_adj ELSE r.RemainingAdjustmentQty,
         Confidence |-> IF r.Confidence = "" THEN group_conf ELSE r.Confidence,
         Severity |-> Max(r.Severity, group_sev)]))

\* the same without the clip of the severities
write_group_no_clip(d, g, headline, remaining_adj, group_conf, group_sev) ==
    set_rows(d, Range(g), LAMBDA r : upd(r,
        [GroupHeadline |-> headline,
         RemainingAdjustmentQty |-> remaining_adj,
         Confidence |-> IF r.Confidence = "" THEN group_conf ELSE r.Confidence]))

\* headline, remaining adjustment, confidence and severity on all rows of g
write_group(d, g, headline, remaining_adj, group_conf, group_sev) ==
    set_rows(d, Range(g), LAMBDA r : upd(r,
        [GroupHeadline |-> headline,
         RemainingAdjustmentQty |-> remaining_adj,
         Confidence |-> IF r.Confidence = "" THEN group_conf ELSE r.Confidence,
         Severity |-> Max(r.Severity, group_sev)]))

\* flags, default rows and secondary rows of a WHS 50 group, before the loop
group_enter(d, key, use_tr) ==
    LET g == group_index(d, key)
        default_loc == nonblank_defaults(d, g)[1]
        default_rows == default_rows_of(d, g, default_loc)
    IN  [key |-> key, whs |-> key[1], item |-> key[2], lot |-> key[3],
         g |-> g,
         missing_master |-> flag_missing_master(d, g),
         default_loc |-> default_loc,
         secured_variance |-> flag_secured_variance(d, g),
         sys_st01 |-> sys_st01_of(d, g),
         default_rows |-> default_rows,
         default_system |-> sum_system(d, default_rows),
         default_count |-> sum_count(d, default_rows),
         default_eligible |->
             is_default_eligible(d[default_rows[1]].LocationType,
                                 d[default_rows[1]].AllocationCategory),
         secondary |-> secondary_index(d, g, default_loc),
         system_total |-> sum_system(d, g),
         count_total |-> sum_count(d, g),
         net_variance |-> sum_variance(d, g),
         use_transfers |-> use_tr]

\* the accumulators at the top of the loop
loop_start(d, ts) ==
    [df |-> d, transfers |-> ts,
     transfers_in_default |-> 0, transfers_out_default |-> 0,
     move_recount |-> FALSE]

\* the default's system quantity alone, the planned transfers left out
default_after_no_transfers(c, acc) == c.default_system

\* default_after = default_system + transfers_in_default - transfers_out_default
default_after_of(c, acc) ==
    c.default_system + acc.transfers_in_default - acc.transfers_out_default

\* the move + recount override, then the default decision
default_step(c, acc) ==
    default_decision(
        IF acc.move_recount
        THEN move_recount_override(acc.df, c.default_rows, c.default_loc)
        ELSE acc.df,
        c.default_rows,
        [missing_master |-> c.missing_master,
         secured_variance |-> c.secured_variance,
         default_eligible |-> c.default_eligible,
         default_count |-> c.default_count,
         default_after |-> default_after_of(c, acc),
         sys_st01 |-> c.sys_st01,
         transfers_in_default |-> acc.transfers_in_default,
         transfers_out_default |-> acc.transfers_out_default])

has_moves_of(has_transfers, acc) ==
    has_transfers \/ acc.transfers_in_default # 0 \/ acc.transfers_out_default # 0

\* headline, group severity, the rows of the group and its summary row
group_close(st, c, acc, dec) ==
    LET flags == [missing_master |-> c.missing_master,
                  secured_variance |-> c.secured_variance,
                  default_empty |-> dec.default_empty,
                  move_recount |-> acc.move_recount]
        has_transfers == has_transfers_for(acc.transfers, c.key)
        has_moves == has_moves_of(has_transfers, acc)
        headline == group_headline(flags, dec.remaining_adj, has_moves)
        group_sev == Max(dec.group_sev, IF has_moves THEN 60 ELSE 0)
        summary ==
            [Whs |-> c.whs, Item |-> c.item, Lot |-> c.lot,
             DefaultLocation |-> c.default_loc,
             SystemTotal |-> c.system_total,
             CountTotal |-> c.count_total,
             NetVariance |-> c.net_variance,
             SysST01 |-> c.sys_st01,
             DefaultSystemAfter |-> default_after_of(c, acc),
             DefaultCount |-> c.default_count,
             Flags |-> join_flags(dec.flags_str),
             RecommendationHeadline |-> headline,
             RemainingAdjustmentQty |-> dec.remaining_adj,
             Confidence |-> dec.group_conf,
             Severity |-> group_sev]
    IN  [df |-> write_group(dec.df, c.g, headline, dec.remaining_adj,
                            dec.group_conf, group_sev),
         transfers |-> acc.transfers,
         group_rows |-> Append(st.group_rows, summary),
         locals |-> Append(st.locals,
             [key |-> c.key, route |-> "reconcile",
              missing_master |-> c.missing_master,
              secured_variance |-> c.secured_variance,
              default_empty |-> dec.default_empty,
              move_recount |-> acc.move_recount,
              default_loc |-> c.default_loc,
              default_eligible |-> c.default_eligible,
              default_system |-> c.default_system,
              default_count |-> c.default_count,
              sys_st01 |-> c.sys_st01,
              transfers_in_default |-> acc.transfers_in_default,
              transfers_out_default |-> acc.transfers_out_default,
              default_after |-> default_after_of(c, acc),
              remaining_adj |-> dec.remaining_adj,
              has_transfers |-> has_transfers,
              has_moves |-> has_moves,
              group_conf |-> dec.group_conf,
              group_sev |-> group_sev])]

\* the full WHS 50 pipeline of one group, as one function
reconcile_after_loop(st, c, acc) == group_close(st, c, acc, default_step(c, acc))

reconcile_after_enter(st, c) ==
    reconcile_after_loop(st, c,
        secondary_loop(loop_start(mark_default(st.df, c.g, c.default_loc),
                                  st.transfers),
                       c.secondary, c))

reconcile_group(st, key, use_tr) ==
    reconcile_after_enter(st, group_enter(st.df, key, use_tr))

\* one pass of "for (whs, item, lot), g in df.groupby(...)"
process_group(st, key, use_tr) ==
    LET route == route_of(st.df, key) IN
    IF route = "non_whs50" THEN non_whs50_group(st, key)
    ELSE IF route = "default_blank" THEN default_blank_group(st, key)
    ELSE IF route = "default_row_missing" THEN default_row_missing_group(st, key)
    ELSE reconcile_group(st, key, use_tr)

\* the loop over the groups in the order `keys`
RECURSIVE process_groups(_, _, _)
process_groups(st, keys, use_tr) ==
    IF keys = <<>> THEN st
    ELSE process_groups(process_group(st, Head(keys), use_tr), Tail(keys), use_tr)

\* ------------------------------------------------------------- inputs
\* Raw cell values as a workbook or a caller may hold them.
IT_X == <<"X">>
IT_Y == <<"Y">>
LOT_NONE == <<>>
LOC_A == <<"A">>
LOC_B == <<"B">>
LOC_Z == <<"Z">>
T_Unsecured == <<"U","n","s","e","c","u","r","e","d">>
T_Secured == <<"S","e","c","u","r","e","d">>
A_Available == <<"A","V","A","I","L","A","B","L","E">>
A_Hold == <<"H","o","l","d">>
A_UponRequest ==
    <<"A","v","a","i","l","a","b","l","e"," ","U","p","o","n"," ",
      "R","e","q","u","e","s","t">>

K_UA == [LocationType |-> T_Unsecured, AllocationCategory |-> A_Available]
K_UH == [LocationType |-> T_Unsecured, AllocationCategory |-> A_Hold]
K_UR == [LocationType |-> T_Unsecured, AllocationCategory |-> A_UponRequest]
K_SA == [LocationType |-> T_Secured, AllocationCategory |-> A_Available]
K_NA == [LocationType |-> NA, AllocationCategory |-> NA]

Qty == 0..MaxQty
CountValues == {NaN} \cup Qty

\* one input record; the variance is a column of its own in the workbook
\* ("Count 1 variance qty"), which the engine reads and never derives
Rec(whs, item, lot, defloc, loc, sys, cnt, var, kind, mm) ==
    [Whs |-> whs, Item |-> item, Lot |-> lot,
     DefaultLocation |-> defloc, Location |-> loc,
     SystemQty |-> sys, CountQty |-> cnt,
     VarianceQty |-> var,
     LocationType |-> kind.LocationType,
     AllocationCategory |-> kind.AllocationCategory,
     MissingMaster |-> mm]

\* a record of a workbook whose variance column agrees with its count and
\* system columns
AgreedRec(whs, item, lot, defloc, loc, sys, cnt, kind, mm) ==
    Rec(whs, item, lot, defloc, loc, sys, cnt,
        IF cnt = NaN THEN NaN ELSE cnt - sys, kind, mm)

AllColumns == Range(required)

\* One WHS 50 group: default A, optional buffer ST01, secondary B.
RichTable(ds, dc, dk, b, ss, sc, sk) ==
    <<AgreedRec(WHS50, IT_X, LOT_NONE, LOC_A, LOC_A, ds, dc, dk, "N")>>
    \o (IF b = 0 THEN <<>>
        ELSE <<AgreedRec(WHS50, IT_X, LOT_NONE, LOC_A, ST01, b, b, K_UA, "N")>>)
    \o <<AgreedRec(WHS50, IT_X, LOT_NONE, LOC_A, LOC_B, ss, sc, sk, "N")>>

\* Groups of item `it` that exercise the other routes and shapes.
VariantGroups(it) ==
    \* two secondaries under a non eligible default
    { <<AgreedRec(WHS50, it, LOT_NONE, LOC_A, LOC_A, 2, 2, K_UH, "N"),
        AgreedRec(WHS50, it, LOT_NONE, LOC_A, LOC_B, 1, c1, K_UA, "N"),
        AgreedRec(WHS50, it, LOT_NONE, LOC_A, <<"C">>, 2, c2, K_UH, "N")>> :
        c1 \in Qty, c2 \in Qty }
    \cup
    \* blank or missing default location value
    { <<AgreedRec(WHS50, it, LOT_NONE, dl, LOC_A, 1, 1, K_UA, "N"),
        AgreedRec(WHS50, it, LOT_NONE, dl, LOC_B, 1, 2, K_NA, mm)>> :
        dl \in {<<>>, NA, <<" ">>}, mm \in {"N", "Y"} }
    \cup
    \* default location that no record of the group has
    { <<AgreedRec(WHS50, it, LOT_NONE, LOC_Z, LOC_A, 1, 0, K_SA, "N"),
        AgreedRec(WHS50, it, LOT_NONE, LOC_Z, ST01, 1, 1, K_UA, "N"),
        AgreedRec(WHS50, it, LOT_NONE, LOC_Z, LOC_B, 1, 1, K_UA, "N")>> }
    \cup
    \* the buffer location named as the default location
    { <<AgreedRec(WHS50, it, LOT_NONE, ST01, ST01, 1, c, k, "N"),
        AgreedRec(WHS50, it, LOT_NONE, ST01, LOC_B, 1, 1, K_UA, "N")>> :
        c \in CountValues, k \in {K_UA, K_UH} }
    \cup
    \* a record missing from the location master
    { <<AgreedRec(WHS50, it, LOT_NONE, LOC_A, LOC_A, 1, 1, K_UA, "N"),
        AgreedRec(WHS50, it, LOT_NONE, LOC_A, LOC_B, 1, c, K_NA, "Y")>> : c \in Qty }
    \cup
    \* another warehouse
    { <<AgreedRec(<<"5","1">>, it, LOT_NONE, LOC_A, LOC_A, 1, 2, K_UA, "N"),
        AgreedRec(<<"5","1">>, it, LOT_NONE, LOC_A, ST01, 1, 1, K_UA, "N"),
        AgreedRec(<<"5","1">>, it, LOT_NONE, LOC_A, LOC_B, 2, 1, K_SA, "N")>> }
    \cup
    \* keys and locations that need normalising
    { <<AgreedRec(<<" ","5","0">>, it, NA, <<"a"," ">>, <<"a">>, 2, 2, K_UA, "N"),
        AgreedRec(<<"5","0"," ">>, it, <<" ">>, <<"a">>, <<"s","t","0","1"," ">>, 1, 1, K_UA, "N"),
        AgreedRec(WHS50, it, LOT_NONE, LOC_A, <<"b">>, 2, c, K_UR, "N")>> : c \in Qty }
    \cup
    \* a buffer record with system quantity 0 and any count
    { <<AgreedRec(WHS50, it, LOT_NONE, LOC_A, LOC_A, 1, 1, k, "N"),
        AgreedRec(WHS50, it, LOT_NONE, LOC_A, ST01, 0, c, K_UA, "N"),
        AgreedRec(WHS50, it, LOT_NONE, LOC_A, LOC_B, 0, 1, K_UA, "N")>> :
        c \in CountValues, k \in {K_UA, K_UH} }
    \cup
    \* a record without a warehouse value, or without an item value
    { <<AgreedRec(WHS50, it, LOT_NONE, LOC_A, LOC_A, 1, 1, K_UA, "N"),
        AgreedRec(k[1], k[2], LOT_NONE, LOC_A, LOC_B, 1, 2, K_UA, "N")>> :
        k \in {<<NA, it>>, <<WHS50, NA>>} }
    \cup
    \* two records at the default location
    { <<AgreedRec(WHS50, it, LOT_NONE, LOC_A, LOC_A, 1, 1, K_UH, "N"),
        AgreedRec(WHS50, it, LOT_NONE, LOC_A, LOC_A, 1, c, K_UH, "N"),
        AgreedRec(WHS50, it, LOT_NONE, LOC_A, LOC_B, 1, 0, K_UH, "N")>> : c \in Qty }

\* Groups whose variance column disagrees with count - system, or was empty
\* in the workbook (read as 0), on the secondary record (f is its system,
\* count and variance) and, with dv = 1, on the default record.
SkewedGroups(it) ==
    { <<Rec(WHS50, it, LOT_NONE, LOC_A, LOC_A, 1, 1, dv, k[1], "N"),
        Rec(WHS50, it, LOT_NONE, LOC_A, LOC_B, f[1], f[2], f[3], k[2], "N")>> :
        dv \in {0, 1},
        f \in {<<1, 1, 2>>, <<2, 2, 1>>, <<1, 2, 0>>, <<2, 1, 0>>, <<1, 1, 1>>},
        k \in {<<K_UA, K_UA>>, <<K_UA, K_SA>>, <<K_SA, K_UA>>} }

\* Groups with a record whose Location cell is empty (f is its system and
\* count): beside the default record alone, beside a secondary as well, and
\* in groups that end at the default checks.
NoLocationGroups(it) ==
    { <<AgreedRec(WHS50, it, LOT_NONE, LOC_A, LOC_A, 1, dc, dk, "N"),
        AgreedRec(WHS50, it, LOT_NONE, LOC_A, NA, f[1], f[2], k[1], k[2])>> :
        dc \in Qty, dk \in {K_UA, K_UH},
        f \in {<<2, 1>>, <<1, 1>>, <<1, 2>>},
        k \in {<<K_UA, "N">>, <<K_NA, "Y">>} }
    \cup
    { <<AgreedRec(WHS50, it, LOT_NONE, LOC_A, LOC_A, 1, 1, K_UA, "N"),
        AgreedRec(WHS50, it, LOT_NONE, LOC_A, NA, 2, 1, K_UA, "N"),
        AgreedRec(WHS50, it, LOT_NONE, LOC_A, LOC_B, 1, c, K_UA, "N")>> :
        c \in Qty }
    \cup
    { <<AgreedRec(WHS50, it, LOT_NONE, dl, NA, 2, 1, K_UA, "N"),
        AgreedRec(WHS50, it, LOT_NONE, dl, LOC_B, 1, 1, K_UA, "N")>> :
        dl \in {<<>>, LOC_A} }

\* rows of a and b alternating, a first
RECURSIVE interleave(_, _)
interleave(a, b) ==
    IF a = <<>> THEN b
    ELSE IF b = <<>> THEN a
    ELSE <<Head(a), Head(b)>> \o interleave(Tail(a), Tail(b))

\* The second group of a two-group table.
PartnerGroups(it) ==
    { g \in VariantGroups(it) :
        /\ g[1].CountQty \in {1, 2}
        /\ g[2].CountQty = 1
        /\ Len(g) = 3 => g[3].CountQty \in {0, 1} }

\* Two groups in one table, in either order, contiguous or interleaved.
Arrange(a, g1, g2) ==
    IF a = 1 THEN g1 \o g2 ELSE IF a = 2 THEN g2 \o g1 ELSE interleave(g1, g2)

ModeNotGiven == <<"<not given>">>
MainModes == {M_TRANSFER, M_ADJUST}
OddModes == {ModeNotGiven, <<>>, <<" ","a","d","j","u","s","t">>,
             <<"t","r","a","n","s","f","e","r"," ">>, <<"B","O","T","H">>}
OddTables == { g \in VariantGroups(IT_X) : g[1].CountQty = 1 }
DroppedColumns ==
    {{"CountQty"}, {"Whs", "VarianceQty"}, {"Missing Location Master"}}

\* ---------------------------------------------------------------- state
VARIABLES
    review_lines,   \* the caller's table: [columns, rows]
    transfer_mode,  \* the mode argument as passed
    pc,             \* "start", "loop", "secondary", "write", "done" or "error"
    df,             \* the working copy with the recommendation columns
    use_transfers,
    todo,           \* group keys still to process
    transfers,      \* list[TransferSuggestion]
    group_rows,     \* the group summary rows
    cur,            \* flags, default and secondary rows of the current group
    sec_todo,       \* secondary rows the loop has still to visit
    moved,          \* transfers_in_default, transfers_out_default, move_recount
    decided,        \* outcome of the default decision of the current group
    locals,         \* local variables of each finished group step, in order
    result,         \* the returned (df, transfers_df, group_summary_df)
    error,          \* the ValueError raised
    run,            \* number of the current call
    prev            \* result of the last finished call, per mode

\* the review window (ui/main_window.py), its notes store and the export
VARIABLES
    review_df,       \* MainWindow.review_df: None, or the rows of the review table
    built,           \* MainWindow.transfers_df and MainWindow.group_df
    btn_export,      \* whether the Export button is enabled
    build_shown,     \* the message box _build_review showed last
    notes,           \* the notes table of NotesDB: key -> (user_notes, updated_at)
    exported         \* the sheets of the workbook export_workbook wrote

engine_vars == <<review_lines, transfer_mode, pc, df, use_transfers, todo,
                 transfers, group_rows, cur, sec_todo, moved, decided, locals,
                 result, error, run, prev>>

ui_vars == <<review_df, built, btn_export, build_shown, notes, exported>>

vars == <<engine_vars, ui_vars>>

NoneDf == <<"None">>
\* no file at out_path yet
NoWorkbook ==
    [exists |-> FALSE, Review_Lines |-> <<>>, Group_Summary |-> <<>>,
     Transfer_Suggestions |-> <<>>, Adjustment_Suggestions |-> <<>>]

\* the window before any review table is built
UiIdle ==
    /\ review_df = NoneDf
    /\ built = [transfers_df |-> NoneDf, group_df |-> NoneDf]
    /\ btn_export = FALSE
    /\ build_shown = [level |-> "", title |-> "", text |-> "", columns |-> <<>>]
    /\ notes = <<>>
    /\ exported = NoWorkbook

NoResult == [df |-> <<>>, transfers_df |-> <<>>, group_summary_df |-> <<>>]
NoError == [kind |-> "", what |-> <<>>]
NoPrev == [u \in BOOLEAN |-> [has |-> FALSE, out |-> NoResult]]
NoGroup == [key |-> <<>>]
NoMoves ==
    [transfers_in_default |-> 0, transfers_out_default |-> 0,
     move_recount |-> FALSE]
NoDecision ==
    [remaining_adj |-> 0, default_empty |-> FALSE, group_conf |-> "High",
     group_sev |-> 0, flags_str |-> <<>>]

SetUp(cols, rows, m) ==
    /\ review_lines = [columns |-> cols, rows |-> rows]
    /\ transfer_mode = m
    /\ pc = "start"
    /\ df = <<>>
    /\ use_transfers = FALSE
    /\ todo = <<>>
    /\ transfers = <<>>
    /\ group_rows = <<>>
    /\ cur = NoGroup
    /\ sec_todo = <<>>
    /\ moved = NoMoves
    /\ decided = NoDecision
    /\ locals = <<>>
    /\ result = NoResult
    /\ error = NoError
    /\ run = 1
    /\ prev = NoPrev
    /\ UiIdle

InitRich ==
    \E ds \in Qty, dc \in CountValues, dk \in {K_UA, K_UH, K_SA},
       b \in 0..MaxBuf,
       ss \in Qty, sc \in CountValues, sk \in {K_UA, K_UH, K_SA},
       m \in MainModes :
        SetUp(AllColumns, RichTable(ds, dc, dk, b, ss, sc, sk), m)

InitArranged(a) ==
    \E g1 \in VariantGroups(IT_X) \cup SkewedGroups(IT_X)
                 \cup NoLocationGroups(IT_X),
       g2 \in PartnerGroups(IT_Y), m \in MainModes :
        SetUp(AllColumns, Arrange(a, g1, g2), m)

InitPair == \E a \in 1..3 : InitArranged(a)

InitOdd ==
    \/ \E t \in OddTables, m \in OddModes : SetUp(AllColumns, t, m)
    \/ \E t \in OddTables, drop \in DroppedColumns,
          m \in {M_ADJUST, <<"B","O","T","H">>} :
           SetUp(AllColumns \ drop, t, m)

Init == InitRich \/ InitPair \/ InitOdd

\* transfer_mode: str = "ADJUST"
effective_mode(m) == IF m = ModeNotGiven THEN M_ADJUST ELSE m

\* the list of the earlier call, kept
kept_transfers(old) == old

\* transfers: list[TransferSuggestion] = []
fresh_transfers(old) == <<>>

StartSchemaError ==
    /\ pc = "start"
    /\ missing_columns(review_lines.columns) # <<>>
    /\ pc' = "error"
    /\ error' = [kind |-> "missing_columns",
                 what |-> missing_columns(review_lines.columns)]
    /\ UNCHANGED <<review_lines, transfer_mode, df, use_transfers, todo,
                   transfers, group_rows, cur, sec_todo, moved, decided,
                   locals, result, run, prev>>
    /\ UNCHANGED ui_vars

StartModeError ==
    /\ pc = "start"
    /\ missing_columns(review_lines.columns) = <<>>
    /\ parse_mode(effective_mode(transfer_mode)) \notin {M_TRANSFER, M_ADJUST}
    /\ pc' = "error"
    /\ error' = [kind |-> "unsupported_mode",
                 what |-> parse_mode(effective_mode(transfer_mode))]
    /\ UNCHANGED <<review_lines, transfer_mode, df, use_transfers, todo,
                   transfers, group_rows, cur, sec_todo, moved, decided,
                   locals, result, run, prev>>
    /\ UNCHANGED ui_vars

StartOk ==
    /\ pc = "start"
    /\ missing_columns(review_lines.columns) = <<>>
    /\ parse_mode(effective_mode(transfer_mode)) \in {M_TRANSFER, M_ADJUST}
    /\ df' = working_copy(review_lines.rows)
    /\ use_transfers' = (parse_mode(effective_mode(transfer_mode)) = M_TRANSFER)
    /\ transfers' = fresh_transfers(transfers)
    /\ group_rows' = <<>>
    /\ locals' = <<>>
    /\ todo' = group_keys(df')
    /\ review_lines' = frame_after_copy(review_lines, df')
    /\ pc' = "loop"
    /\ UNCHANGED <<transfer_mode, cur, sec_todo, moved, decided,
                   result, error, run, prev>>
    /\ UNCHANGED ui_vars

Frame == [df |-> df, transfers |-> transfers,
          group_rows |-> group_rows, locals |-> locals]

\* a group that ends at one of the three "continue" statements
TerminalGroup(st) ==
    /\ df' = st.df
    /\ group_rows' = st.group_rows
    /\ locals' = st.locals
    /\ todo' = Tail(todo)
    /\ UNCHANGED <<review_lines, transfer_mode, pc, use_transfers, transfers,
                   cur, sec_todo, moved, decided, result, error, run, prev>>

GroupNonWhs50 ==
    /\ pc = "loop"
    /\ todo # <<>>
    /\ route_of(df, Head(todo)) = "non_whs50"
    /\ TerminalGroup(non_whs50_group(Frame, Head(todo)))
    /\ UNCHANGED ui_vars

GroupDefaultBlank ==
    /\ pc = "loop"
    /\ todo # <<>>
    /\ route_of(df, Head(todo)) = "default_blank"
    /\ TerminalGroup(default_blank_group(Frame, Head(todo)))
    /\ UNCHANGED ui_vars

GroupDefaultRowMissing ==
    /\ pc = "loop"
    /\ todo # <<>>
    /\ route_of(df, Head(todo)) = "default_row_missing"
    /\ TerminalGroup(default_row_missing_group(Frame, Head(todo)))
    /\ UNCHANGED ui_vars

\* a WHS 50 group with its default row: up to the top of the secondary loop
EnterGroup(c) ==
    /\ cur' = c
    /\ df' = mark_default(df, c.g, c.default_loc)
    /\ sec_todo' = c.secondary
    /\ moved' = NoMoves
    /\ decided' = NoDecision
    /\ pc' = "secondary"
    /\ UNCHANGED <<review_lines, transfer_mode, use_transfers, todo, transfers,
                   group_rows, locals, result, error, run, prev>>

GroupReconcile ==
    /\ pc = "loop"
    /\ todo # <<>>
    /\ route_of(df, Head(todo)) = "reconcile"
    /\ EnterGroup(group_enter(df, Head(todo), use_transfers))
    /\ UNCHANGED ui_vars

Acc == [df |-> df, transfers |-> transfers,
        transfers_in_default |-> moved.transfers_in_default,
        transfers_out_default |-> moved.transfers_out_default,
        move_recount |-> moved.move_recount]

\* one iteration of the loop over the secondary rows
LoopBody(acc) ==
    /\ df' = acc.df
    /\ transfers' = acc.transfers
    /\ moved' = [transfers_in_default |-> acc.transfers_in_default,
                 transfers_out_default |-> acc.transfers_out_default,
                 move_recount |-> acc.move_recount]
    /\ sec_todo' = Tail(sec_todo)
    /\ UNCHANGED <<review_lines, transfer_mode, pc, use_transfers, todo,
                   group_rows, cur, decided, locals, result, error, run, prev>>

SecondaryOver ==
    /\ pc = "secondary"
    /\ sec_todo # <<>>
    /\ row_delta(df[Head(sec_todo)]) # NaN
    /\ row_delta(df[Head(sec_todo)]) > 0
    /\ LoopBody(secondary_row(Acc, Head(sec_todo), cur))
    /\ UNCHANGED ui_vars

SecondaryUnder ==
    /\ pc = "secondary"
    /\ sec_todo # <<>>
    /\ row_delta(df[Head(sec_todo)]) # NaN
    /\ row_delta(df[Head(sec_todo)]) < 0
    /\ LoopBody(secondary_row(Acc, Head(sec_todo), cur))
    /\ UNCHANGED ui_vars

SecondaryMatch ==
    /\ pc = "secondary"
    /\ sec_todo # <<>>
    /\ \/ row_delta(df[Head(sec_todo)]) = NaN
       \/ row_delta(df[Head(sec_todo)]) = 0
    /\ LoopBody(secondary_row(Acc, Head(sec_todo), cur))
    /\ UNCHANGED ui_vars

\* after the loop: move + recount override and the default decision
Decide(dec) ==
    /\ df' = dec.df
    /\ decided' = [remaining_adj |-> dec.remaining_adj,
                   default_empty |-> dec.default_empty,
                   group_conf |-> dec.group_conf,
                   group_sev |-> dec.group_sev,
                   flags_str |-> dec.flags_str]
    /\ pc' = "write"
    /\ UNCHANGED <<review_lines, transfer_mode, use_transfers, todo, transfers,
                   group_rows, cur, sec_todo, moved, locals, result, error,
                   run, prev>>

DefaultDecision ==
    /\ pc = "secondary"
    /\ sec_todo = <<>>
    /\ Decide(default_step(cur, Acc))
    /\ UNCHANGED ui_vars

\* headline, group values on all rows, summary row
CloseGroup(st) ==
    /\ df' = st.df
    /\ group_rows' = st.group_rows
    /\ locals' = st.locals
    /\ todo' = Tail(todo)
    /\ pc' = "loop"
    /\ UNCHANGED <<review_lines, transfer_mode, use_transfers, transfers, cur,
                   sec_todo, moved, decided, result, error, run, prev>>

GroupWrite ==
    /\ pc = "write"
    /\ CloseGroup(group_close(Frame, cur, Acc,
                              [df |-> df,
                               remaining_adj |-> decided.remaining_adj,
                               default_empty |-> decided.default_empty,
                               group_conf |-> decided.group_conf,
                               group_sev |-> decided.group_sev,
                               flags_str |-> decided.flags_str]))
    /\ UNCHANGED ui_vars

\* pd.DataFrame(group_rows): every column gets one type.  A column in which
\* a float stands beside None is a float column and holds NaN for the None;
\* a column that holds None in every row keeps None.
DataFrame(rows) ==
    LET cell(v, others) ==
            IF v = NoneVal /\ \E x \in others : x # NoneVal THEN NaN ELSE v
        after == {rows[n].DefaultSystemAfter : n \in DOMAIN rows}
        count == {rows[n].DefaultCount : n \in DOMAIN rows}
        remaining == {rows[n].RemainingAdjustmentQty : n \in DOMAIN rows}
    IN  Strict([n \in DOMAIN rows |->
            upd(rows[n],
                [DefaultSystemAfter |-> cell(rows[n].DefaultSystemAfter, after),
                 DefaultCount |-> cell(rows[n].DefaultCount, count),
                 RemainingAdjustmentQty |->
                     cell(rows[n].RemainingAdjustmentQty, remaining)])])

\* transfers_df, group_summary_df and the return
Finish ==
    /\ pc = "loop"
    /\ todo = <<>>
    /\ result' = [df |-> df,
                  transfers_df |-> IF use_transfers THEN transfers ELSE <<>>,
                  group_summary_df |-> DataFrame(group_rows)]
    /\ pc' = "done"
    /\ UNCHANGED <<review_lines, transfer_mode, df, use_transfers, todo,
                   transfers, group_rows, cur, sec_todo, moved, decided,
                   locals, error, run, prev>>
    /\ UNCHANGED ui_vars

\* the caller runs the engine again on the same table (mode kept or toggled)
Rerun ==
    /\ pc = "done"
    /\ run < MaxRuns
    /\ \E m \in MainModes : transfer_mode' = m
    /\ prev' = [prev EXCEPT ![use_transfers] = [has |-> TRUE, out |-> result]]
    /\ run' = run + 1
    /\ pc' = "start"
    /\ result' = NoResult
    /\ UNCHANGED <<review_lines, df, use_transfers, todo, transfers,
                   group_rows, cur, sec_todo, moved, decided, locals, error>>
    /\ UNCHANGED ui_vars

\* adj_df[keep]: the columns of the Adjustment_Suggestions sheet
adjustment_row(g) ==
    [Whs |-> g.Whs, Item |-> g.Item, Lot |-> g.Lot,
     RemainingAdjustmentQty |-> g.RemainingAdjustmentQty,
     RecommendationHeadline |-> g.RecommendationHeadline,
     Flags |-> g.Flags, Confidence |-> g.Confidence, Severity |-> g.Severity]

\* adj_df = group_df[group_df["RemainingAdjustmentQty"] != 0]: a missing
\* value differs from 0 as well
adjustment_suggestions(group_df) ==
    LET adj_df == SelectSeq(group_df, LAMBDA g : g.RemainingAdjustmentQty # 0)
    IN  Strict([n \in DOMAIN adj_df |-> adjustment_row(adj_df[n])])

\* export_workbook: the rows of the four sheets
export_workbook(review, group_df, transfers_df) ==
    [exists |-> TRUE,
     Review_Lines |-> review,
     Group_Summary |-> group_df,
     Transfer_Suggestions |-> transfers_df,
     Adjustment_Suggestions |-> adjustment_suggestions(group_df)]

\* export_workbook called with the three tables a call of
\* apply_recommendations returned; a later call writes the file again
Export ==
    /\ pc = "done"
    /\ exported' = export_workbook(result.df, result.group_summary_df,
                                   result.transfers_df)
    /\ UNCHANGED <<review_df, built, btn_export, build_shown, notes>>
    /\ UNCHANGED engine_vars

Next ==
    \/ StartSchemaError
    \/ StartModeError
    \/ StartOk
    \/ GroupNonWhs50
    \/ GroupDefaultBlank
    \/ GroupDefaultRowMissing
    \/ GroupReconcile
    \/ SecondaryOver
    \/ SecondaryUnder
    \/ SecondaryMatch
    \/ DefaultDecision
    \/ GroupWrite
    \/ Finish
    \/ Export

Spec == Init /\ [][Next]_vars

\* repeated calls on the tables of two interleaved groups
InitRerun == InitArranged(3) \/ InitOdd
NextRerun == Next \/ Rerun
SpecRerun == InitRerun /\ [][NextRerun]_vars

\* single calls on the tables of one or two groups
InitGroups == InitPair \/ InitOdd
SpecGroups == InitGroups /\ [][Next]_vars

\* The group steps taken one by one give what the loop gives as a function.
StepsAgreeWithLoop ==
    pc = "done" =>
        LET st == process_groups(
                      [df |-> working_copy(review_lines.rows), transfers |-> <<>>,
                       group_rows |-> <<>>, locals |-> <<>>],
                      group_keys(working_copy(review_lines.rows)), use_transfers)
        IN  /\ result.df = st.df
            /\ result.transfers_df = st.transfers
            /\ result.group_summary_df = DataFrame(st.group_rows)
            /\ locals = st.locals

\* ------------------------------------------------- the review window
\* self.session_id.text().strip() of a session id that was entered
SessionId == <<"S","1">>

\* NoteKey(sid, whs, part, lot, loc) of a row of the review table
NoteKey(sid, r) == <<sid, r.Whs, r.Item, r.Lot, r.Location>>

\* NotesDB.read_notes_for_session
read_notes_for_session(db, sid) ==
    [k \in {j \in DOMAIN db : j[1] = sid} |-> db[k]]

\* NotesDB.upsert_note: INSERT ... ON CONFLICT DO UPDATE
upsert_note(db, key, user_notes, updated_at) ==
    (key :> [user_notes |-> user_notes, updated_at |-> updated_at]) @@ db

\* _build_review: the persisted notes merged into the recommended rows
merge_notes(d, found, sid) ==
    Strict([i \in DOMAIN d |->
        IF NoteKey(sid, d[i]) \in DOMAIN found
        THEN upd(d[i], [UserNotes |-> found[NoteKey(sid, d[i])].user_notes,
                        NoteUpdatedAt |-> found[NoteKey(sid, d[i])].updated_at])
        ELSE upd(d[i], [UserNotes |-> "", NoteUpdatedAt |-> 0])])

\* Column lists: [c for c in cols if c in others] and its complement.
columns_in(cols, others) == SelectSeq(cols, LAMBDA c : c \in Range(others))
columns_not_in(cols, others) ==
    SelectSeq(cols, LAMBDA c : c \notin Range(others))

\* load_recount_workbook: required and optional columns
recount_required ==
    <<"Whs", "Item", "Location", "Batch/lot", "Item Rev Default Location",
      "Count 1 cutoff on-hand qty", "Count 1 qty", "Count 1 variance qty">>
recount_optional ==
    <<"Tag", "Assigned to", "Description", "Allocated", "Cur cost",
      "Count 1 entry on-hand qty", "Count Status">>

\* load_warehouse_locations: required and optional columns
locations_required ==
    <<"Whs", "Location", "Location Type", "Allocation Category">>
locations_optional == <<"Allocation Priority", "Stock Area", "Supervisor">>

\* both loaders: the columns of the frame returned for a sheet with the
\* columns `found` (preferred ones first, every other column kept)
loaded_columns(found, req, optional) ==
    LET preferred == req \o columns_in(optional, found)
    IN  preferred \o columns_not_in(found, preferred)

\* build_review_lines: the columns of the returned frame.  The left merge on
\* (Whs, Location) gives a clashing column of the location master the suffix
\* "_loc"; Missing Location Master replaces _merge; four columns are
\* renamed; SessionId goes in front; `cols` keeps, in its own order, the
\* columns it names.
review_columns(rec_cols, loc_cols) ==
    LET renamed(c) ==
            IF c = "Count 1 cutoff on-hand qty" THEN "SystemQty"
            ELSE IF c = "Count 1 qty" THEN "CountQty"
            ELSE IF c = "Count 1 variance qty" THEN "VarianceQty"
            ELSE IF c = "Item Rev Default Location" THEN "DefaultLocation"
            ELSE c
        joined == columns_not_in(loc_cols, <<"Whs", "Location">>)
        merged ==
            <<"SessionId">>
            \o Strict([i \in DOMAIN rec_cols |-> renamed(rec_cols[i])])
            \o Strict([i \in DOMAIN joined |->
                   IF joined[i] \in Range(rec_cols) THEN joined[i] \o "_loc"
                   ELSE renamed(joined[i])])
            \o <<"Missing Location Master">>
        cols ==
            <<"SessionId", "Whs", "Item", "Batch/lot", "DefaultLocation",
              "Location", "SystemQty", "CountQty", "VarianceQty",
              "Location Type", "Allocation Category",
              "Missing Location Master",
              "Tag", "Assigned to", "Description", "Allocated", "Cur cost",
              "Count 1 entry on-hand qty", "Count Status", "Notes",
              "Allocation Priority", "Stock Area", "Supervisor">>
    IN  columns_in(cols, merged)

\* apply_recommendations: the columns of the returned frame, the output
\* columns added to the copy
recommended_columns(cols) ==
    cols \o columns_not_in(
                <<"IsDefault", "IsSecondary", "RecommendationType",
                  "RecommendedQty", "FromLocation", "ToLocation",
                  "RemainingAdjustmentQty", "SetLocationQtyTo", "Reason",
                  "Confidence", "Severity", "GroupHeadline">>, cols)

\* _build_review: missing_columns, the columns of the two loaded frames
\* that the recommended review table does not have
lost_columns(rec_cols, loc_cols) ==
    LET original_columns == rec_cols \o columns_not_in(loc_cols, rec_cols)
    IN  columns_not_in(
            original_columns,
            recommended_columns(review_columns(rec_cols, loc_cols)))

\* Header rows of recount sheets: the required columns alone, with optional
\* and unknown columns, and without a required column.
RecountSheets ==
    { recount_required,
      <<"Tag">> \o recount_required \o <<"Description", "Remark">>,
      SubSeq(recount_required, 1, 6) \o <<"Count 1 variance qty">> }

\* Header rows of the All Locations sheet.
LocationSheets ==
    { locations_required,
      locations_required \o <<"Stock Area", "Item">>,
      <<"Whs", "Location", "Location Type">> }

\* Review lines as build_review_lines returns them: sorted by
\* Whs, Item, Batch/lot, Location, index reset.
NoteTables ==
    { <<AgreedRec(WHS50, IT_X, LOT_NONE, LOC_A, LOC_A, 1, 1, K_UA, "N"),
        AgreedRec(WHS50, IT_X, LOT_NONE, LOC_A, LOC_B, 1, 0, K_UA, "N"),
        AgreedRec(WHS50, IT_X, LOT_NONE, LOC_A, ST01, 1, 1, K_UA, "N")>>,
      <<AgreedRec(WHS50, IT_X, LOT_NONE, LOC_A, LOC_A, 1, 1, K_UA, "N"),
        AgreedRec(WHS50, IT_X, LOT_NONE, LOC_A, LOC_B, 1, 1, K_UA, "N"),
        AgreedRec(WHS50, IT_Y, LOT_NONE, LOC_A, LOC_A, 1, 2, K_UH, "N"),
        AgreedRec(WHS50, IT_Y, LOT_NONE, LOC_A, LOC_B, 1, 1, K_UA, "N")>> }

\* the except branch of _build_review: export disabled, the error shown,
\* the tables of the window as they were
BuildFailed(text, columns) ==
    /\ btn_export' = FALSE
    /\ build_shown' = [level |-> "critical", title |-> "Load/Build Error",
                       text |-> text, columns |-> columns]
    /\ UNCHANGED <<review_df, built, notes, exported>>

\* _build_review.  The rows of the table build_review_lines returns are
\* drawn from NoteTables; the table widget that _apply_filters fills at the
\* end is Qt's and not part of the state.
BuildReview ==
    /\ \E sid \in {<<>>, SessionId}, loc_found \in LocationSheets,
          rec_found \in RecountSheets, t \in NoteTables, m \in MainModes :
           LET loc_cols ==
                   loaded_columns(loc_found, locations_required,
                                  locations_optional)
               rec_cols ==
                   loaded_columns(rec_found, recount_required,
                                  recount_optional)
               lost == lost_columns(rec_cols, loc_cols)
               d == working_copy(t)
               st == process_groups(
                         [df |-> d, transfers |-> <<>>, group_rows |-> <<>>,
                          locals |-> <<>>],
                         group_keys(d), parse_mode(m) = M_TRANSFER)
           IN  IF sid = <<>>
               THEN /\ build_shown' = [level |-> "warning",
                                        title |-> "Missing SessionId",
                                        text |-> "Enter a SessionId.",
                                        columns |-> <<>>]
                    /\ UNCHANGED <<review_df, built, btn_export, notes,
                                   exported>>
               ELSE IF columns_not_in(locations_required, loc_found) # <<>>
               THEN BuildFailed(
                        "Warehouse Locations is missing required columns",
                        columns_not_in(locations_required, loc_found))
               ELSE IF columns_not_in(recount_required, rec_found) # <<>>
               THEN BuildFailed(
                        "Recount sheet is missing required columns",
                        columns_not_in(recount_required, rec_found))
               ELSE IF lost # <<>>
               THEN BuildFailed("Columns lost while building review table",
                                lost)
               ELSE /\ review_df' =
                           merge_notes(st.df,
                                       read_notes_for_session(notes, sid), sid)
                    /\ built' = [transfers_df |-> st.transfers,
                                 group_df |-> DataFrame(st.group_rows)]
                    /\ btn_export' = TRUE
                    /\ UNCHANGED <<build_shown, notes, exported>>
    /\ UNCHANGED engine_vars

\* _export_xlsx, the slot of the Export button: a click needs the enabled
\* button; the file dialog gives a path or is cancelled
ExportXlsx ==
    /\ btn_export
    /\ \E chosen \in BOOLEAN :
           IF chosen
           THEN exported' = export_workbook(review_df, built.group_df,
                                            built.transfers_df)
           ELSE UNCHANGED exported
    /\ UNCHANGED <<review_df, built, btn_export, build_shown, notes>>
    /\ UNCHANGED engine_vars

\* NotesDB.upsert_note(key, user_notes), called by any user of the store:
\* the key and the text are the caller's, updated_at is the time of the call
UpsertNote ==
    /\ \E loc \in {LOC_A, LOC_B}, user_notes \in {"", "n1"},
          updated_at \in {1, 2} :
           notes' = upsert_note(notes, <<SessionId, WHS50, IT_X, LOT_NONE, loc>>,
                                user_notes, updated_at)
    /\ UNCHANGED <<review_df, built, btn_export, build_shown, exported>>
    /\ UNCHANGED engine_vars

\* the window open with no call of the engine in progress
SpecWindow ==
    SetUp(AllColumns, <<>>, M_ADJUST)
        /\ [][BuildReview \/ ExportXlsx \/ UpsertNote]_vars

\* Every build ends in the except branch: the window never holds a review
\* table, and the Export button stays disabled.
WindowNeverHoldsReview ==
    /\ review_df = NoneDf
    /\ built.group_df = NoneDf
    /\ built.transfers_df = NoneDf
    /\ ~btn_export
    /\ ~exported.exists


\* ------------------------------------------ records without a Location
\* In a reconciled group a record without a Location value is marked neither
\* default nor secondary and is never visited: it keeps its placeholders and
\* receives only what the group write gives every record of the group.
UnlocatedRecordIsLeftBlank ==
    pc = "done" =>
        \A k \in DOMAIN locals : locals[k].route = "reconcile" =>
            \A i \in DOMAIN result.df :
                (/\ key_present(result.df[i])
                 /\ row_key(result.df[i]) = locals[k].key
                 /\ result.df[i].Location = NA) =>
                    /\ result.df[i].IsDefault = "N"
                    /\ result.df[i].IsSecondary = "N"
                    /\ result.df[i].RecommendationType = ""
                    /\ result.df[i].RecommendedQty = 0
                    /\ result.df[i].Reason = ""
                    /\ result.df[i].Confidence = "Med"
                    /\ result.df[i].Severity = result.group_summary_df[k].Severity
                    /\ result.df[i].GroupHeadline =
                           result.group_summary_df[k].RecommendationHeadline
                    /\ result.df[i].RemainingAdjustmentQty =
                           result.group_summary_df[k].RemainingAdjustmentQty

\* ----------------------------------------------------------- properties
\* The call has returned its three tables.
Returned == pc = "done"

\* Group k of the summary went through the whole WHS 50 reconciliation.
Reconciled(k) == locals[k].route = "reconcile"

RowsOfGroup(k) ==
    {i \in DOMAIN result.df :
        key_present(result.df[i]) /\ row_key(result.df[i]) = locals[k].key}

DefaultRowsOfGroup(k) == {i \in RowsOfGroup(k) : result.df[i].IsDefault = "Y"}

\* the records the secondary loop visits
SecondaryRowsOfGroup(k) ==
    {i \in RowsOfGroup(k) :
        result.df[i].IsSecondary = "Y" /\ result.df[i].Location # ST01}

\* the records of group k at neither its default location nor ST01, those
\* without a Location value included: "every other record" of the group
OtherRowsOfGroup(k) ==
    {i \in RowsOfGroup(k) :
        /\ result.df[i].Location # locals[k].default_loc
        /\ result.df[i].Location # ST01}

\* those of them that have a Location value
LocatedRowsOfGroup(k) ==
    {i \in OtherRowsOfGroup(k) : result.df[i].Location # NA}

SuggestionsOfGroup(ts, key) ==
    SelectSeq(ts, LAMBDA t :
        t.whs = key[1] /\ t.item = key[2] /\ t.batch_lot = key[3])

AnyFlag(k) ==
    \/ locals[k].missing_master
    \/ locals[k].secured_variance
    \/ locals[k].move_recount
    \/ locals[k].default_empty

SetMax(S) == CHOOSE m \in S : \A x \in S : x <= m

RECURSIVE SumOver(_, _)
SumOver(S, f) ==
    IF S = {} THEN 0
    ELSE LET x == CHOOSE y \in S : TRUE IN f[x] + SumOver(S \ {x}, f)

\* counted minus system of the returned record i, 0 when the count is missing
DeltaOfRow ==
    [i \in DOMAIN result.df |->
        IF result.df[i].CountQty = NaN THEN 0
        ELSE result.df[i].CountQty - result.df[i].SystemQty]

CountOfRow ==
    [i \in DOMAIN result.df |->
        IF result.df[i].CountQty = NaN THEN 0 ELSE result.df[i].CountQty]

\* C1: in every WHS 50 group whose move_recount flag was set by a secondary
\* record, every default-location record ends with action INVESTIGATE and the
\* remaining adjustment is 0 on the records and in the group summary.
C1_MoveRecountKeepsDefaultInvestigate ==
    Returned =>
        \A k \in DOMAIN locals :
            (Reconciled(k) /\ locals[k].move_recount) =>
                /\ \A i \in DefaultRowsOfGroup(k) :
                       result.df[i].RecommendationType = "INVESTIGATE"
                /\ \A i \in RowsOfGroup(k) :
                       result.df[i].RemainingAdjustmentQty = 0
                /\ result.group_summary_df[k].RemainingAdjustmentQty = 0

\* C2: in every reconciled WHS 50 group, a secondary record of a secured
\* location whose count differs from its system quantity gets ADJUST to the
\* counted quantity, and no transfer suggestion of the group names its location.
C2_SecuredSecondaryIsAdjusted ==
    Returned =>
        \A k \in DOMAIN locals : Reconciled(k) =>
            \A i \in SecondaryRowsOfGroup(k) :
                LET r == result.df[i] IN
                (/\ py_norm(r.LocationType) = W_secured
                 /\ r.CountQty # NaN
                 /\ r.CountQty # r.SystemQty) =>
                    /\ r.RecommendationType = "ADJUST"
                    /\ r.SetLocationQtyTo = r.CountQty
                    /\ \A n \in DOMAIN result.transfers_df :
                           LET t == result.transfers_df[n] IN
                           (<<t.whs, t.item, t.batch_lot>> = locals[k].key) =>
                               /\ t.from_location # r.Location
                               /\ t.to_location # r.Location

\* C3: no record located at ST01 ends with action ADJUST or TRANSFER, whatever
\* the group's default location, the record's count and the warehouse.
C3_BufferNeverAdjustedNorTransferred ==
    Returned =>
        \A i \in DOMAIN result.df :
            result.df[i].Location = ST01 =>
                result.df[i].RecommendationType \notin {"ADJUST", "TRANSFER"}

\* C4: the confidence of a reconciled group's summary is High when no flag is
\* triggered and at most Med when missing-master, secured-variance,
\* move-recount or default-empty is triggered.
C4_ConfidenceCappedByEveryFlag ==
    Returned =>
        \A k \in DOMAIN locals : Reconciled(k) =>
            IF AnyFlag(k)
            THEN conf_order(result.group_summary_df[k].Confidence)
                     <= conf_order("Med")
            ELSE result.group_summary_df[k].Confidence = "High"

\* C5: the severity of a reconciled group's summary equals the maximum of the
\* floors of its triggered flags (100, 95, 70, 85) and the severities of its
\* records; it is never lower than the severity of one of its records.
C5_GroupSeverityIsMaximum ==
    Returned =>
        \A k \in DOMAIN locals : Reconciled(k) =>
            result.group_summary_df[k].Severity =
                SetMax({0}
                    \cup (IF locals[k].missing_master THEN {100} ELSE {})
                    \cup (IF locals[k].secured_variance THEN {95} ELSE {})
                    \cup (IF locals[k].move_recount THEN {70} ELSE {})
                    \cup (IF locals[k].default_empty THEN {85} ELSE {})
                    \cup {result.df[i].Severity : i \in RowsOfGroup(k)})

\* C6: the severity of a reconciled group is at least 60 when a record of the
\* group has action TRANSFER or was routed to move-and-recount, and it is 0
\* when no record of the group changed and no flag is triggered.
C6_MovementFloorsSeverity ==
    Returned =>
        \A k \in DOMAIN locals : Reconciled(k) =>
            /\ (\/ locals[k].move_recount
                \/ \E i \in RowsOfGroup(k) :
                       result.df[i].RecommendationType = "TRANSFER") =>
                   result.group_summary_df[k].Severity >= 60
            /\ (/\ ~AnyFlag(k)
                /\ \A i \in RowsOfGroup(k) :
                       result.df[i].RecommendationType \in {"NO_ACTION", ""}) =>
                   result.group_summary_df[k].Severity = 0

\* the left-hand side of the balancing law for group k
BalanceOfGroup(k) ==
    SumOver(SecondaryRowsOfGroup(k), DeltaOfRow)
        + result.group_summary_df[k].RemainingAdjustmentQty
        + (locals[k].transfers_out_default - locals[k].transfers_in_default)

\* counted minus system over the default and secondary records of group k
NetOfGroup(k) ==
    SumOver(SecondaryRowsOfGroup(k) \cup DefaultRowsOfGroup(k), DeltaOfRow)

\* C7 as stated: in ADJUST mode, for every WHS 50 group with no triggered
\* flag, the secondary deltas plus the remaining adjustment plus (moved out
\* minus moved in at the default) add up to 0.
C7_BalanceIsZero ==
    (Returned /\ ~use_transfers) =>
        \A k \in DOMAIN locals :
            (Reconciled(k) /\ ~AnyFlag(k)) => BalanceOfGroup(k) = 0

\* C7 amended: in ADJUST mode, for every WHS 50 group with no triggered flag
\* and a default counted above 0, nothing is moved at the default and the
\* same sum equals the net variance of the default and secondary records,
\* less what the ST01 tolerance of an eligible default absorbs (at most the
\* ST01 system quantity, and nothing for a default that is not eligible).
C7_BalanceIsNetVariance ==
    (Returned /\ ~use_transfers) =>
        \A k \in DOMAIN locals :
            (/\ Reconciled(k)
             /\ ~AnyFlag(k)
             /\ SumOver(DefaultRowsOfGroup(k), CountOfRow) # 0) =>
                /\ locals[k].transfers_in_default = 0
                /\ locals[k].transfers_out_default = 0
                /\ BalanceOfGroup(k) <= NetOfGroup(k)
                /\ BalanceOfGroup(k) >=
                       NetOfGroup(k) - result.group_summary_df[k].SysST01
                /\ (\/ ~locals[k].default_eligible
                    \/ result.group_summary_df[k].SysST01 = 0) =>
                       BalanceOfGroup(k) = NetOfGroup(k)

\* ADJUST mode, no flag: a secondary adjusted down and a default adjusted
C7_Witness ==
    /\ Returned
    /\ ~use_transfers
    /\ \E k \in DOMAIN locals :
           /\ Reconciled(k)
           /\ ~AnyFlag(k)
           /\ SumOver(DefaultRowsOfGroup(k), CountOfRow) # 0
           /\ result.group_summary_df[k].RemainingAdjustmentQty # 0
           /\ \E i \in SecondaryRowsOfGroup(k) :
                  result.df[i].RecommendationType = "ADJUST"

\* C8: a second run on the same table and the same mode returns the same
\* enriched records, the same transfer suggestions in the same order and the
\* same group summaries as the earlier run.
C8_SecondRunReturnsTheSame ==
    (Returned /\ prev[use_transfers].has) => result = prev[use_transfers].out

\* a second run in TRANSFER mode that returns suggestions and summaries
C8_Witness ==
    /\ Returned
    /\ run > 1
    /\ prev[use_transfers].has
    /\ result.transfers_df # <<>>
    /\ result.group_summary_df # <<>>

Reverse(s) == [i \in 1..Len(s) |-> s[Len(s) + 1 - i]]

\* the loop run over the groups in the opposite order
OtherOrder ==
    process_groups(
        [df |-> working_copy(review_lines.rows), transfers |-> <<>>,
         group_rows |-> <<>>, locals |-> <<>>],
        Reverse(group_keys(working_copy(review_lines.rows))), use_transfers)

\* C9: evaluating the groups in the opposite order gives every record the
\* same derived fields, every group the same summary row and every group the
\* same transfer suggestions.
C9_GroupOrderDoesNotMatter ==
    Returned =>
        LET other == OtherOrder
            other_summary == DataFrame(other.group_rows)
            n == Len(result.group_summary_df)
        IN  /\ other.df = result.df
            /\ Len(other_summary) = n
            /\ \A k \in DOMAIN result.group_summary_df :
                   /\ other_summary[n + 1 - k] = result.group_summary_df[k]
                   /\ SuggestionsOfGroup(
                          IF use_transfers THEN other.transfers ELSE <<>>,
                          locals[k].key)
                          = SuggestionsOfGroup(result.transfers_df, locals[k].key)

\* two reconciled groups, the first with transfer suggestions, the second without
C9_Witness ==
    /\ Returned
    /\ Len(locals) = 2
    /\ Reconciled(1)
    /\ Reconciled(2)
    /\ SuggestionsOfGroup(result.transfers_df, locals[1].key) # <<>>
    /\ SuggestionsOfGroup(result.transfers_df, locals[2].key) = <<>>

\* C10: a non-secured secondary record counted above system is routed to
\* move-and-recount (flag set, action INVESTIGATE) exactly when the default's
\* count is missing or 0 or the ST01 system quantity is above 0; otherwise it
\* gets TRANSFER of the delta from the default to its location (TRANSFER mode)
\* or ADJUST up to its count (ADJUST mode), with severity 90.
C10_OverageTransfersUnlessDefaultUnverified ==
    Returned =>
        \A k \in DOMAIN locals : Reconciled(k) =>
            \A i \in SecondaryRowsOfGroup(k) :
                LET r == result.df[i]
                    unverified ==
                        \/ SumOver(DefaultRowsOfGroup(k), CountOfRow) = 0
                        \/ result.group_summary_df[k].SysST01 > 0
                IN  (/\ py_norm(r.LocationType) # W_secured
                     /\ r.CountQty # NaN
                     /\ r.CountQty > r.SystemQty) =>
                        IF unverified
                        THEN /\ locals[k].move_recount
                             /\ r.RecommendationType = "INVESTIGATE"
                        ELSE /\ r.Severity = 90
                             /\ IF use_transfers
                                THEN /\ r.RecommendationType = "TRANSFER"
                                     /\ r.RecommendedQty = r.CountQty - r.SystemQty
                                     /\ r.FromLocation = locals[k].default_loc
                                     /\ r.ToLocation = r.Location
                                ELSE /\ r.RecommendationType = "ADJUST"
                                     /\ r.SetLocationQtyTo = r.CountQty

\* the allocation category of record r lets its stock be moved
MovableRow(r) ==
    py_norm(r.AllocationCategory) \in
        {W_available, W_available_upon_request, W_available_on_request}

\* a non-secured secondary record counted below system
ShortRow(r) ==
    /\ py_norm(r.LocationType) # W_secured
    /\ r.CountQty # NaN
    /\ r.CountQty < r.SystemQty

\* the action the standard shortage handling gives record r of group k
StandardShortage(r, k) ==
    /\ r.RecommendedQty = r.SystemQty - r.CountQty
    /\ r.Severity = Max(90, result.group_summary_df[k].Severity)
    /\ r.Confidence = IF locals[k].secured_variance THEN "Med" ELSE "High"
    /\ IF use_transfers
       THEN /\ r.RecommendationType = "TRANSFER"
            /\ r.FromLocation = r.Location
            /\ r.ToLocation = result.group_summary_df[k].DefaultLocation
       ELSE /\ r.RecommendationType = "ADJUST"
            /\ r.SetLocationQtyTo = r.CountQty

\* C11 as stated: every non-secured secondary record counted below system,
\* whatever the default's count and the record's allocation category, gets
\* TRANSFER of |delta| to the default (TRANSFER mode) or ADJUST down to its
\* count (ADJUST mode), severity 90, confidence High (Med under
\* secured-variance).
C11_ShortageAlwaysTransfersOrAdjusts ==
    Returned =>
        \A k \in DOMAIN locals : Reconciled(k) =>
            \A i \in OtherRowsOfGroup(k) :
                LET r == result.df[i] IN
                ShortRow(r) =>
                    /\ r.Severity = 90
                    /\ r.Confidence =
                           IF locals[k].secured_variance THEN "Med" ELSE "High"
                    /\ IF use_transfers
                       THEN /\ r.RecommendationType = "TRANSFER"
                            /\ r.RecommendedQty = r.SystemQty - r.CountQty
                            /\ r.FromLocation = r.Location
                            /\ r.ToLocation =
                                   result.group_summary_df[k].DefaultLocation
                       ELSE /\ r.RecommendationType = "ADJUST"
                            /\ r.SetLocationQtyTo = r.CountQty

\* C11 amended: such a record, when it has a Location value, gets that
\* TRANSFER or ADJUST unless its allocation category is movable and the
\* default's counted quantity is 0 or missing, where it gets INVESTIGATE of
\* |delta| through move-and-recount; its severity is 90 (80 for
\* move-and-recount) or the group's severity when that is higher; confidence
\* High, Med under secured-variance.
C11_ShortageUnlessDefaultUnverified ==
    Returned =>
        \A k \in DOMAIN locals : Reconciled(k) =>
            \A i \in LocatedRowsOfGroup(k) :
                LET r == result.df[i] IN
                ShortRow(r) =>
                    IF /\ MovableRow(r)
                       /\ SumOver(DefaultRowsOfGroup(k), CountOfRow) = 0
                    THEN /\ r.RecommendationType = "INVESTIGATE"
                         /\ r.RecommendedQty = r.SystemQty - r.CountQty
                         /\ locals[k].move_recount
                         /\ r.Severity =
                                Max(80, result.group_summary_df[k].Severity)
                         /\ r.Confidence =
                                IF locals[k].secured_variance THEN "Med" ELSE "High"
                    ELSE StandardShortage(r, k)

\* a movable shortage under a default counted 0, in TRANSFER mode
C11_Witness ==
    /\ Returned
    /\ use_transfers
    /\ \E k \in DOMAIN locals : Reconciled(k) /\
           \E i \in LocatedRowsOfGroup(k) :
               /\ ShortRow(result.df[i])
               /\ MovableRow(result.df[i])
               /\ SumOver(DefaultRowsOfGroup(k), CountOfRow) = 0
               /\ result.df[i].RecommendationType = "INVESTIGATE"

\* C12 as stated: every secondary record counted equal to system ends
\* NO_ACTION, confidence High, severity 0, whatever the rest of its group.
C12_MatchingSecondaryHasSeverityZero ==
    Returned =>
        \A k \in DOMAIN locals : Reconciled(k) =>
            \A i \in OtherRowsOfGroup(k) :
                LET r == result.df[i] IN
                (r.CountQty # NaN /\ r.CountQty = r.SystemQty) =>
                    /\ r.RecommendationType = "NO_ACTION"
                    /\ r.Confidence = "High"
                    /\ r.Severity = 0

\* C12 amended: in a reconciled WHS 50 group every secondary record that has
\* a Location value and is counted equal to system ends NO_ACTION, confidence
\* High, and with the severity of its group (0 only when the group's
\* severity is 0).
C12_MatchingSecondaryHasGroupSeverity ==
    Returned =>
        \A k \in DOMAIN locals : Reconciled(k) =>
            \A i \in LocatedRowsOfGroup(k) :
                LET r == result.df[i] IN
                (r.CountQty # NaN /\ r.CountQty = r.SystemQty) =>
                    /\ r.RecommendationType = "NO_ACTION"
                    /\ r.Confidence = "High"
                    /\ r.Severity = result.group_summary_df[k].Severity

\* a matching secondary in a group whose severity is above 0
C12_Witness ==
    /\ Returned
    /\ \E k \in DOMAIN locals : Reconciled(k) /\
           \E i \in LocatedRowsOfGroup(k) :
               /\ result.df[i].CountQty = result.df[i].SystemQty
               /\ result.df[i].RecommendationType = "NO_ACTION"
               /\ result.group_summary_df[k].Severity > 0

PrimaryGroup(k) == locals[k].key[1] = WHS50

\* no record of group k names a default location
BlankDefault(k) ==
    \A i \in RowsOfGroup(k) : result.df[i].DefaultLocation = <<>>

\* a default location is named, and no record of group k is located there
AbsentDefault(k) ==
    /\ ~BlankDefault(k)
    /\ \A i \in RowsOfGroup(k), j \in RowsOfGroup(k) :
           result.df[j].DefaultLocation # <<>> =>
               result.df[i].Location # result.df[j].DefaultLocation

\* C13: a WHS 50 group whose default-location value is blank, or whose
\* default location matches none of its records, gets INVESTIGATE, confidence
\* Low and a severity in 85..100 on every record (100 for a blank default with
\* a record missing from the master, else 85) and in its summary, no ADJUST,
\* no TRANSFER and no suggestion; every group still gets its summary row.
C13_NoDefaultIsTerminalInvestigate ==
    Returned =>
        /\ Len(result.group_summary_df) =
               Cardinality({row_key(result.df[i]) :
                   i \in {j \in DOMAIN result.df : key_present(result.df[j])}})
        /\ \A k \in DOMAIN locals :
               (PrimaryGroup(k) /\ (BlankDefault(k) \/ AbsentDefault(k))) =>
                   LET sev == IF /\ BlankDefault(k)
                                 /\ \E i \in RowsOfGroup(k) :
                                        result.df[i].MissingMaster = "Y"
                              THEN 100 ELSE 85
                   IN  /\ \A i \in RowsOfGroup(k) :
                              /\ result.df[i].RecommendationType = "INVESTIGATE"
                              /\ result.df[i].Confidence = "Low"
                              /\ result.df[i].Severity = sev
                       /\ result.group_summary_df[k].Confidence = "Low"
                       /\ result.group_summary_df[k].Severity = sev
                       /\ SuggestionsOfGroup(result.transfers_df,
                                             locals[k].key) = <<>>

\* a blank-default group with a record missing from the master, followed by
\* a reconciled group that got a transfer suggestion
C13_Witness ==
    /\ Returned
    /\ Len(locals) = 2
    /\ PrimaryGroup(1)
    /\ BlankDefault(1)
    /\ result.group_summary_df[1].Severity = 100
    /\ Reconciled(2)
    /\ SuggestionsOfGroup(result.transfers_df, locals[2].key) # <<>>

\* a group whose default location matches none of its records
C13_WitnessAbsent ==
    /\ Returned
    /\ \E k \in DOMAIN locals : PrimaryGroup(k) /\ AbsentDefault(k)

\* C14: a WHS 50 group with a record carrying the missing-master flag ends
\* terminal: every record INVESTIGATE, none ADJUST or TRANSFER, no transfer
\* suggestion and no remaining adjustment other than 0.
C14_MissingMasterIsTerminalInvestigate ==
    Returned =>
        \A k \in DOMAIN locals :
            (/\ PrimaryGroup(k)
             /\ \E i \in RowsOfGroup(k) : result.df[i].MissingMaster = "Y") =>
                /\ \A i \in RowsOfGroup(k) :
                       result.df[i].RecommendationType = "INVESTIGATE"
                /\ SuggestionsOfGroup(result.transfers_df, locals[k].key) = <<>>
                /\ result.group_summary_df[k].RemainingAdjustmentQty
                       \in {0, NoneVal, NaN}

SystemOfRow == [i \in DOMAIN result.df |-> result.df[i].SystemQty]

\* the quantity record i moves to the default by a TRANSFER
TransferOfRow ==
    [i \in DOMAIN result.df |->
        IF result.df[i].RecommendationType = "TRANSFER"
        THEN result.df[i].RecommendedQty ELSE 0]

BufferRowsOfGroup(k) == {i \in RowsOfGroup(k) : result.df[i].Location = ST01}

\* location type unsecured and allocation category available, in any case
EligibleRow(r) ==
    /\ py_norm(r.LocationType) = W_unsecured
    /\ py_norm(r.AllocationCategory) = W_available

\* a secured record of group k with a variance
SecuredVarianceIn(k) ==
    \E i \in RowsOfGroup(k) :
        /\ py_norm(result.df[i].LocationType) = W_secured
        /\ result.df[i].VarianceQty # 0

\* C15: in a WHS 50 group with no secondary variance and no missing-master or
\* secured-variance flag whose default is counted 0: an eligible default with
\* ST01 system quantity above 0 gets NO_ACTION, severity 25, remaining
\* adjustment 0; otherwise the default gets INVESTIGATE, severity 85, the
\* default-empty flag is set, the group confidence is at most Med and no
\* record of the group gets ADJUST.
C15_DefaultCountedZero ==
    Returned =>
        \A k \in DOMAIN locals :
            (/\ Reconciled(k)
             /\ \A i \in SecondaryRowsOfGroup(k) : DeltaOfRow[i] = 0
             /\ \A i \in RowsOfGroup(k) : result.df[i].MissingMaster # "Y"
             /\ ~SecuredVarianceIn(k)
             /\ SumOver(DefaultRowsOfGroup(k), CountOfRow) = 0) =>
                LET g == result.group_summary_df[k] IN
                /\ g.RemainingAdjustmentQty = 0
                /\ \A i \in RowsOfGroup(k) :
                       result.df[i].RemainingAdjustmentQty = 0
                /\ IF /\ \A i \in DefaultRowsOfGroup(k) : EligibleRow(result.df[i])
                      /\ SumOver(BufferRowsOfGroup(k), SystemOfRow) > 0
                   THEN /\ \A i \in DefaultRowsOfGroup(k) :
                               /\ result.df[i].RecommendationType = "NO_ACTION"
                               /\ result.df[i].Severity = 25
                        /\ g.Flags = ""
                   ELSE /\ \A i \in DefaultRowsOfGroup(k) :
                               /\ result.df[i].RecommendationType = "INVESTIGATE"
                               /\ result.df[i].Severity = 85
                        /\ g.Flags = "DefaultEmpty"
                        /\ conf_order(g.Confidence) <= conf_order("Med")
                        /\ \A i \in RowsOfGroup(k) :
                               result.df[i].RecommendationType # "ADJUST"

\* Scenario B: an eligible default with system quantity, counted 0, and a
\* buffer with system quantity: NO_ACTION with severity 25
C15_Witness ==
    /\ Returned
    /\ \E k \in DOMAIN locals :
           /\ Reconciled(k)
           /\ \A i \in SecondaryRowsOfGroup(k) : DeltaOfRow[i] = 0
           /\ ~SecuredVarianceIn(k)
           /\ SumOver(BufferRowsOfGroup(k), SystemOfRow) > 0
           /\ \E i \in DefaultRowsOfGroup(k) :
                  /\ result.df[i].CountQty = 0
                  /\ result.df[i].SystemQty > 0
                  /\ EligibleRow(result.df[i])
                  /\ result.df[i].RecommendationType = "NO_ACTION"
                  /\ result.df[i].Severity = 25

\* the remaining adjustment the band rule gives group k
ExpectedRemaining(k) ==
    LET c == SumOver(DefaultRowsOfGroup(k), CountOfRow)
        default_after ==
            SumOver(DefaultRowsOfGroup(k), SystemOfRow)
                + SumOver(RowsOfGroup(k), TransferOfRow)
        buffer_qty == SumOver(BufferRowsOfGroup(k), SystemOfRow)
        first == CHOOSE i \in DefaultRowsOfGroup(k) :
                     \A j \in DefaultRowsOfGroup(k) : i <= j
    IN  IF EligibleRow(result.df[first])
        THEN IF c < default_after THEN c - default_after
             ELSE IF c > default_after + buffer_qty
             THEN c - (default_after + buffer_qty)
             ELSE 0
        ELSE c - default_after

\* C16: in a WHS 50 group without move_recount whose default is counted
\* c # 0, the remaining adjustment is c - default_after below the band,
\* c - (default_after + buffer) above it and 0 inside it for an eligible
\* default, c - default_after for a default that is not eligible; the
\* default record gets ADJUST exactly when it is not 0, else NO_ACTION.
C16_RemainingAdjustmentFollowsBand ==
    Returned =>
        \A k \in DOMAIN locals :
            (/\ Reconciled(k)
             /\ ~locals[k].move_recount
             /\ SumOver(DefaultRowsOfGroup(k), CountOfRow) # 0) =>
                /\ locals[k].transfers_in_default =
                       SumOver(RowsOfGroup(k), TransferOfRow)
                /\ locals[k].transfers_out_default = 0
                /\ result.group_summary_df[k].RemainingAdjustmentQty =
                       ExpectedRemaining(k)
                /\ \A i \in DefaultRowsOfGroup(k) :
                       result.df[i].RecommendationType =
                           IF ExpectedRemaining(k) # 0 THEN "ADJUST"
                           ELSE "NO_ACTION"

\* Scenario C: an eligible default counted above system inside the band of a
\* buffer with system quantity: NO_ACTION, remaining adjustment 0
C16_Witness ==
    /\ Returned
    /\ \E k \in DOMAIN locals :
           /\ Reconciled(k)
           /\ ~locals[k].move_recount
           /\ SumOver(BufferRowsOfGroup(k), SystemOfRow) > 0
           /\ result.group_summary_df[k].RemainingAdjustmentQty = 0
           /\ \E i \in DefaultRowsOfGroup(k) :
                  /\ EligibleRow(result.df[i])
                  /\ result.df[i].CountQty # NaN
                  /\ result.df[i].CountQty > result.df[i].SystemQty
                  /\ result.df[i].RecommendationType = "NO_ACTION"

\* C17: in a group of a warehouse other than 50 every record not at ST01 is
\* reconciled to its own count: ADJUST with severity 80 when counted differs
\* from system, NO_ACTION with severity 0 when equal, confidence High; the
\* group gets no TRANSFER, no transfer suggestion and no move-and-recount.
C17_OtherWarehouseAdjustsToCount ==
    Returned =>
        \A k \in DOMAIN locals : ~PrimaryGroup(k) =>
            /\ \A i \in RowsOfGroup(k) :
                   LET r == result.df[i] IN
                   /\ r.RecommendationType # "TRANSFER"
                   /\ (r.Location # ST01 /\ r.CountQty # NaN) =>
                          /\ r.Confidence = "High"
                          /\ IF r.CountQty # r.SystemQty
                             THEN /\ r.RecommendationType = "ADJUST"
                                  /\ r.Severity = 80
                             ELSE /\ r.RecommendationType = "NO_ACTION"
                                  /\ r.Severity = 0
            /\ SuggestionsOfGroup(result.transfers_df, locals[k].key) = <<>>
            /\ ~locals[k].move_recount

\* the headline the fixed priority gives group k
ExpectedHeadline(k) ==
    LET g == result.group_summary_df[k]
        rem == g.RemainingAdjustmentQty
        movement == \/ \E i \in RowsOfGroup(k) :
                        result.df[i].RecommendationType = "TRANSFER"
                 \/ locals[k].transfers_in_default # 0
    IN  IF \E i \in RowsOfGroup(k) : result.df[i].MissingMaster = "Y"
        THEN "Investigate: location not in master"
        ELSE IF locals[k].move_recount
        THEN "Move + recount required (include default)"
        ELSE IF SecuredVarianceIn(k)
        THEN "Investigate: secured location variance"
        ELSE IF locals[k].default_empty
        THEN "Action needed: default counted zero (verify on-hand)"
        ELSE IF rem # 0
        THEN "Adjust " \o (IF rem > 0 THEN "up " ELSE "down ")
                 \o ToString(Abs(rem))
                 \o (IF movement THEN " after transfers" ELSE "")
        ELSE IF movement THEN "Transfers only (resolve via default)"
        ELSE "No variance"

\* C18: the headline of a reconciled group is the first match of
\* missing-master, move-recount, secured-variance, default-empty, a non-zero
\* remaining adjustment ("Adjust up/down" and its size, "after transfers"
\* exactly when something moved), movement alone, and "No variance" last.
C18_HeadlineByPriority ==
    Returned =>
        \A k \in DOMAIN locals : Reconciled(k) =>
            /\ result.group_summary_df[k].RecommendationHeadline
                   = ExpectedHeadline(k)
            /\ \A i \in RowsOfGroup(k) :
                   result.df[i].GroupHeadline = ExpectedHeadline(k)

\* a group with both move-recount and secured-variance, where the first hides
\* the second, and the headline is the move-recount one
C18_Witness ==
    /\ Returned
    /\ \E k \in DOMAIN locals :
           /\ Reconciled(k)
           /\ locals[k].move_recount
           /\ SecuredVarianceIn(k)
           /\ result.group_summary_df[k].RemainingAdjustmentQty # 0
           /\ result.group_summary_df[k].RecommendationHeadline
                  = "Move + recount required (include default)"

\* the required fields the input table does not have
AbsentFields == {c \in Range(required) : c \notin review_lines.columns}

\* C19: once the call has started, a table without some required field has
\* made it fail with an error that lists exactly the absent required fields,
\* each once, with no group processed and no table returned; a table with
\* every required field never gives that error.
C19_SchemaErrorListsMissingFields ==
    pc # "start" =>
        IF AbsentFields # {}
        THEN /\ pc = "error"
             /\ error.kind = "missing_columns"
             /\ Range(error.what) = AbsentFields
             /\ Len(error.what) = Cardinality(AbsentFields)
             /\ result = NoResult
             /\ df = <<>>
             /\ locals = <<>>
             /\ group_rows = <<>>
        ELSE error.kind # "missing_columns"

\* the call failed on a table that lacks two required fields
C19_Witness ==
    /\ pc = "error"
    /\ error.kind = "missing_columns"
    /\ Cardinality(AbsentFields) = 2
    /\ Len(error.what) = 2

\* C20: in mode ADJUST the transfer-suggestion table is empty; in mode
\* TRANSFER every suggestion has a quantity above 0, a from-location other
\* than its to-location, and belongs to a WHS 50 group that has a record at
\* the from-location, a location value that is neither the default nor ST01,
\* whose counted quantity differs from its system quantity by the suggested
\* quantity.
C20_SuggestionsOnlyInTransferMode ==
    Returned =>
        IF ~use_transfers
        THEN result.transfers_df = <<>>
        ELSE \A n \in DOMAIN result.transfers_df :
                 LET t == result.transfers_df[n] IN
                 /\ t.qty > 0
                 /\ t.from_location # t.to_location
                 /\ t.whs = WHS50
                 /\ \E k \in DOMAIN locals :
                        /\ locals[k].key = <<t.whs, t.item, t.batch_lot>>
                        /\ \E i \in RowsOfGroup(k) :
                               /\ result.df[i].Location = t.from_location
                               /\ result.df[i].Location # NA
                               /\ result.df[i].Location # ST01
                               /\ result.df[i].IsDefault # "Y"
                               /\ result.df[i].Location # t.to_location
                               /\ DeltaOfRow[i] # 0
                               /\ Abs(DeltaOfRow[i]) = t.qty

\* a TRANSFER run that returned a suggestion for a record left INVESTIGATE
\* and one for a record marked TRANSFER, and none for a record without a
\* Location value whose count differs from its system quantity
C20_Witness ==
    /\ Returned
    /\ use_transfers
    /\ \E n, m \in DOMAIN result.transfers_df :
           /\ result.transfers_df[n].severity = 80
           /\ result.transfers_df[m].severity = 90
    /\ \E k \in DOMAIN locals : Reconciled(k) /\
           \E i \in RowsOfGroup(k) :
               /\ result.df[i].Location = NA
               /\ DeltaOfRow[i] # 0

\* an ADJUST run of a table with a secondary variance in a WHS 50 group
C20_WitnessAdjust ==
    /\ Returned
    /\ ~use_transfers
    /\ \E k \in DOMAIN locals :
           /\ Reconciled(k)
           /\ \E i \in SecondaryRowsOfGroup(k) : DeltaOfRow[i] # 0

\* C21: no step of a call, successful or failed, changes the caller's input
\* table: its column set and its records, key fields and quantities included,
\* stay what they were; the normalised and derived fields are in the copy.
C21_InputNeverMutated == [][review_lines' = review_lines]_vars

\* a returned run whose copy has a normalised key and a derived field, on an
\* input that still has the raw key and not the derived column
C21_Witness ==
    /\ Returned
    /\ "RecommendationType" \notin review_lines.columns
    /\ \E i \in DOMAIN result.df :
           /\ result.df[i].Location # review_lines.rows[i].Location
           /\ result.df[i].RecommendationType # ""
           /\ "RecommendationType" \notin DOMAIN review_lines.rows[i]

\* the (warehouse, item, lot) values of the input, normalised as the engine
\* normalises them; a missing warehouse or item is a value of its own
InputKeys == {row_key(working_row(review_lines.rows[i])) :
                 i \in DOMAIN review_lines.rows}

SummaryKey(g) == <<g.Whs, g.Item, g.Lot>>

\* C22: a returned run has one enriched record per input record, each with a
\* non-empty action and a non-empty group headline, and its group summary has
\* exactly one row for each distinct (warehouse, item, lot) of the input,
\* groups with a missing warehouse or item value included.
C22_NoGroupDisappears ==
    Returned =>
        /\ Len(result.df) = Len(review_lines.rows)
        /\ \A i \in DOMAIN result.df :
               /\ result.df[i].RecommendationType # ""
               /\ result.df[i].GroupHeadline # ""
        /\ {SummaryKey(result.group_summary_df[n]) :
               n \in DOMAIN result.group_summary_df} = InputKeys
        /\ Len(result.group_summary_df) = Cardinality(InputKeys)

Actions == {"NO_ACTION", "ADJUST", "TRANSFER", "INVESTIGATE"}
Confidences == {"Low", "Med", "High"}

\* C23: every record of a returned enriched table has an action among
\* NO_ACTION, ADJUST, TRANSFER, INVESTIGATE, a confidence among Low, Med, High
\* and an integer severity from 0 to 100.
C23_RecordFieldsInRange ==
    Returned =>
        \A i \in DOMAIN result.df :
            /\ result.df[i].RecommendationType \in Actions
            /\ result.df[i].Confidence \in Confidences
            /\ result.df[i].Severity \in 0..100

\* the role labels a returned record carries; the buffer role has no column
\* of its own, a buffer record is one located at ST01
RoleLabels(r) ==
    (IF r.IsDefault = "Y" THEN {"Default"} ELSE {})
    \cup (IF r.IsSecondary = "Y" THEN {"Secondary"} ELSE {})

\* C24: in every group each record has exactly one role: the record at the
\* group's default location is labelled Default and nothing else, the record
\* at ST01 is not labelled Secondary, and every other record is labelled
\* Secondary and nothing else.
C24_ExactlyOneRole ==
    Returned =>
        \A k \in DOMAIN locals : \A i \in RowsOfGroup(k) :
            LET r == result.df[i] IN
            IF r.Location = ST01
            THEN "Secondary" \notin RoleLabels(r)
            ELSE IF r.Location = r.DefaultLocation
            THEN RoleLabels(r) = {"Default"}
            ELSE RoleLabels(r) = {"Secondary"}

\* every record of group k is counted and its count equals its system
\* quantity, and no record is missing from the location master
NothingVaries(k) ==
    /\ ~locals[k].missing_master
    /\ \A i \in RowsOfGroup(k) :
           /\ result.df[i].CountQty # NaN
           /\ result.df[i].CountQty = result.df[i].SystemQty
           /\ result.df[i].VarianceQty = 0

\* C25: a reconciled WHS 50 group in which no record varies, whatever its
\* system quantities (0 included), has the headline "No variance", remaining
\* adjustment 0, group severity 0 and no INVESTIGATE, ADJUST or TRANSFER on
\* any record.
C25_NoVarianceGroupIsQuiet ==
    Returned =>
        \A k \in DOMAIN locals : (Reconciled(k) /\ NothingVaries(k)) =>
            /\ result.group_summary_df[k].RecommendationHeadline = "No variance"
            /\ result.group_summary_df[k].RemainingAdjustmentQty = 0
            /\ result.group_summary_df[k].Severity = 0
            /\ \A i \in RowsOfGroup(k) :
                   result.df[i].RecommendationType
                       \notin {"INVESTIGATE", "ADJUST", "TRANSFER"}

\* what a call in mode ADJUST returns for the input table
AdjustRun ==
    LET d == working_copy(review_lines.rows)
        st == process_groups(
                  [df |-> d, transfers |-> <<>>, group_rows |-> <<>>,
                   locals |-> <<>>],
                  group_keys(d), FALSE)
    IN  [df |-> st.df, transfers_df |-> <<>>,
         group_summary_df |-> DataFrame(st.group_rows)]

ModeOmittedOrEmpty == transfer_mode \in {ModeNotGiven, <<>>}

ModeNamesOne ==
    /\ transfer_mode # ModeNotGiven
    /\ str_upper(str_strip(transfer_mode)) \in {M_TRANSFER, M_ADJUST}

\* C26: on a table with every required field, a call whose mode is omitted or
\* empty returns what mode ADJUST returns (no suggestion, no TRANSFER action);
\* a mode that reads TRANSFER or ADJUST once stripped and upper-cased runs in
\* that mode; any other mode ends in an error and returns nothing.
C26_ModeDefaultsToAdjust ==
    (pc # "start" /\ AbsentFields = {}) =>
        IF ModeOmittedOrEmpty
        THEN /\ pc # "error"
             /\ Returned =>
                    /\ ~use_transfers
                    /\ result = AdjustRun
                    /\ \A i \in DOMAIN result.df :
                           result.df[i].RecommendationType # "TRANSFER"
        ELSE IF ModeNamesOne
        THEN /\ pc # "error"
             /\ Returned =>
                    use_transfers
                        = (str_upper(str_strip(transfer_mode)) = M_TRANSFER)
        ELSE /\ pc = "error"
             /\ error.kind = "unsupported_mode"
             /\ result = NoResult

\* the loop run on the same table in the other mode
OtherModeRun ==
    LET d == working_copy(review_lines.rows) IN
    process_groups(
        [df |-> d, transfers |-> <<>>, group_rows |-> <<>>, locals |-> <<>>],
        group_keys(d), ~use_transfers)

\* C27: for a reconciled WHS 50 group with a non-eligible default counted
\* other than 0, the remaining adjustment of mode ADJUST is that of mode
\* TRANSFER plus the quantities of the records that mode TRANSFER marks
\* TRANSFER; those records are ADJUST in mode ADJUST, the default is ADJUST
\* or NO_ACTION as its own remaining adjustment is non-zero or zero, and every
\* other record has the same action in both modes.
C27_ModesAgreeInNetEffect ==
    Returned =>
        LET other == OtherModeRun
            tr == IF use_transfers
                  THEN [df |-> result.df, rows |-> result.group_summary_df]
                  ELSE [df |-> other.df, rows |-> DataFrame(other.group_rows)]
            ad == IF use_transfers
                  THEN [df |-> other.df, rows |-> DataFrame(other.group_rows)]
                  ELSE [df |-> result.df, rows |-> result.group_summary_df]
        IN  \A k \in DOMAIN locals :
                (/\ Reconciled(k)
                 /\ ~locals[k].default_eligible
                 /\ locals[k].default_count # 0) =>
                    LET moved_rows == {i \in RowsOfGroup(k) :
                            tr.df[i].RecommendationType = "TRANSFER"}
                        qty == [i \in DOMAIN tr.df |-> tr.df[i].RecommendedQty]
                    IN  /\ ad.rows[k].RemainingAdjustmentQty
                               = tr.rows[k].RemainingAdjustmentQty
                                     + SumOver(moved_rows, qty)
                        /\ \A i \in RowsOfGroup(k) :
                               IF i \in moved_rows
                               THEN ad.df[i].RecommendationType = "ADJUST"
                               ELSE IF i \in DefaultRowsOfGroup(k)
                               THEN /\ ad.df[i].RecommendationType =
                                          IF ad.rows[k].RemainingAdjustmentQty # 0
                                          THEN "ADJUST" ELSE "NO_ACTION"
                                    /\ tr.df[i].RecommendationType =
                                          IF tr.rows[k].RemainingAdjustmentQty # 0
                                          THEN "ADJUST" ELSE "NO_ACTION"
                               ELSE ad.df[i].RecommendationType
                                        = tr.df[i].RecommendationType

\* a TRANSFER run of such a group where a record is marked TRANSFER and the
\* default keeps a remaining adjustment of its own
C27_Witness ==
    /\ Returned
    /\ use_transfers
    /\ \E k \in DOMAIN locals :
           /\ Reconciled(k)
           /\ ~locals[k].default_eligible
           /\ locals[k].default_count # 0
           /\ result.group_summary_df[k].RemainingAdjustmentQty # 0
           /\ \E i \in RowsOfGroup(k) :
                  result.df[i].RecommendationType = "TRANSFER"

\* C28: all records of a reconciled WHS 50 group carry the GroupHeadline and
\* the RemainingAdjustmentQty of the group's summary row, and a severity that
\* is at least the summary's severity.
C28_RecordsCarryGroupSummary ==
    Returned =>
        \A k \in DOMAIN locals : Reconciled(k) =>
            \A i \in RowsOfGroup(k) :
                LET r == result.df[i]
                    g == result.group_summary_df[k]
                IN  /\ r.GroupHeadline = g.RecommendationHeadline
                    /\ r.RemainingAdjustmentQty = g.RemainingAdjustmentQty
                    /\ r.Severity >= g.Severity

\* a reconciled group with a non-zero remaining adjustment, a matching
\* secondary record and a buffer record, all carrying the summary's values
C28_Witness ==
    /\ Returned
    /\ \E k \in DOMAIN locals :
           /\ Reconciled(k)
           /\ result.group_summary_df[k].RemainingAdjustmentQty # 0
           /\ result.group_summary_df[k].Severity > 0
           /\ \E i, j \in RowsOfGroup(k) :
                  /\ result.df[i].RecommendationType = "NO_ACTION"
                  /\ result.df[i].IsDefault = "N"
                  /\ result.df[i].RemainingAdjustmentQty # 0
                  /\ result.df[j].Location = ST01
                  /\ result.df[j].IsDefault = "N"

\* the group summaries whose remaining adjustment is a number other than 0
NonZeroRemaining(group_df) ==
    SelectSeq(group_df, LAMBDA g :
        IsNum(g.RemainingAdjustmentQty) /\ g.RemainingAdjustmentQty # 0)

\* C30: the Adjustment_Suggestions sheet of an exported workbook lists exactly
\* the groups of the group summary whose remaining adjustment is a non-zero
\* number; groups with remaining adjustment 0 and groups with no remaining
\* adjustment value are not listed.
C30_AdjustmentSheetListsNonZeroGroups ==
    exported.exists =>
        LET wanted == NonZeroRemaining(result.group_summary_df)
            sheet == exported.Adjustment_Suggestions
        IN  /\ Len(sheet) = Len(wanted)
            /\ \A n \in DOMAIN sheet :
                   /\ SummaryKey(sheet[n]) = SummaryKey(wanted[n])
                   /\ sheet[n].RemainingAdjustmentQty
                          = wanted[n].RemainingAdjustmentQty
====
